---- MODULE Spec2Model ----
(***************************************************************************)
(* EtherNet/IP client stack: the EIPConnection session state machine, the  *)
(* EthernetIPDriver facade guards in front of it, and the events a Node.js *)
(* net.Socket and a server on the other end can produce.                   *)
(*                                                                         *)
(* One action is one JavaScript callback run to completion (an application *)
(* call, a socket event handler or a timer callback).  The application is  *)
(* assumed to listen to the `error` event, so that emit('error') does not  *)
(* throw.  A TypeError thrown inside a socket event handler is an uncaught *)
(* exception: the process stops (crashed).                                 *)
(*                                                                         *)
(* The byte-level functions (utils.js, message.js), the driver's type      *)
(* inference and readTags loop, and the simulator's tag services are       *)
(* modelled after the connection, each under a specification of its own.   *)
(***************************************************************************)
EXTENDS Integers, Sequences, FiniteSets, TLC

\* ---- bounds of the model ----
MaxSockets == 2       \* connect() calls that open a socket
MaxRequests == 2      \* sendRequest calls accepted in connected state
MaxDisconnects == 1   \* disconnect() calls that reach the teardown path
MaxHandle == 1        \* session handles a server may assign: 0..MaxHandle

\* ---- program constants ----
REGISTER_SESSION == 101      \* 0x0065
UNREGISTER_SESSION == 102    \* 0x0066
SEND_RR_DATA == 111          \* 0x006F
HEADER_SIZE == 24

SocketIds == 1..MaxSockets
RequestIds == 1..MaxRequests
DisconnectIds == 1..MaxDisconnects
Handles == 0..MaxHandle
\* header status values a server may send: success and 'invalid session handle'
StatusCodes == {0, 101}

VARIABLES
  connected,        \* this.connected
  sessionHandle,    \* this.sessionHandle
  socket,           \* this.socket: 0 is null, else the id of a Socket
  connectCb,        \* this._connectResolve/_connectReject: 0 is null, else the connect() call they belong to
  pendingResponse,  \* this._pendingResponse: 0 is null, else the request whose callbacks it holds
  socks,            \* state of every Socket object created by connect()
  connFut,          \* the promise returned by the connect() call that created socket s
  reqs,             \* the promise, timer and message of every accepted sendRequest
  discs,            \* every disconnect() call that went past the early return
  wire,             \* what the client wrote on each socket and the server has not answered, in order
  crashed,          \* an event handler threw: the process is gone
  last,             \* the callback that ran last and how the promise it settled ended
  batch,            \* the readTags() call in progress: its names, position and results
  tags,             \* the simulator's tag table: this.tags and this.tagTypes
  arg,              \* the function applied last and the arguments it was given
  ret,              \* what that application returned or threw
  sessions,         \* the simulator's this.sessions: the socket of every session handle
  nextSessionHandle,  \* the simulator's this.nextSessionHandle
  deviceInfo,       \* the simulator's this.deviceInfo
  discover,         \* a discoverPLCs()/discoverPLC() call: its socket, devices, timer, promise
  scanner,          \* a PLCDiscovery object and the events it emitted
  db,               \* the SQLite database of register.js: the rows of QUEUE and its sqlite_sequence
  register,         \* register.js: the timer's rounds and the processJob() calls they started
  api               \* the ids of the jobs whose post to the REST API succeeded

vars == <<connected, sessionHandle, socket, connectCb, pendingResponse, socks,
          connFut, reqs, discs, wire, crashed, last, batch, tags, arg, ret,
          sessions, nextSessionHandle, deviceInfo, discover, scanner,
          db, register, api>>

\* the connection and its sockets
conn == <<connected, sessionHandle, socket, connectCb, pendingResponse, socks,
          connFut, reqs, discs, wire, crashed, last>>
\* the function applications
app == <<arg, ret>>
\* the simulator's sessions
sim == <<sessions, nextSessionHandle, deviceInfo>>
\* network discovery
udp == <<discover, scanner>>
\* the queue and the process that drains it
reg == <<db, register, api>>

\* ---- promises ----
NoFuture == [st |-> "none", err |-> "", code |-> 0]
PendingFuture == [st |-> "pending", err |-> "", code |-> 0]

\* resolve(): a promise settles once; later calls are ignored
Resolve(f) == IF f.st = "pending" THEN [f EXCEPT !.st = "resolved"] ELSE f

\* reject(new Error(e)) with error.statusCode = c
Reject(f, e, c) ==
  IF f.st = "pending" THEN [f EXCEPT !.st = "rejected", !.err = e, !.code = c] ELSE f

\* ---- errorHandler.js ----
getEIPStatusMessage(statusCode) ==
  CASE statusCode = 0 -> "Success"
    [] statusCode = 1 -> "Invalid or unsupported command"
    [] statusCode = 2 -> "Insufficient memory in the target device"
    [] statusCode = 3 -> "Invalid parameter value or malformed data"
    [] statusCode = 101 -> "Invalid session handle"
    [] statusCode = 102 -> "Invalid length"
    [] statusCode = 103 -> "Unsupported protocol version"
    [] OTHER -> "Unknown error"

Suggestions(statusCode) ==
  CASE statusCode = 3 -> "protocol version / request format"
    [] statusCode = 103 -> "protocol version 2"
    [] statusCode = 101 -> "reconnect"
    [] OTHER -> "check documentation"

getDetailedError(statusCode) ==
  [code |-> statusCode,
   message |-> getEIPStatusMessage(statusCode),
   suggestions |-> Suggestions(statusCode)]

\* ---- net.Socket ----
Remove(q, i) == [j \in 1..(Len(q) - 1) |-> IF j < i THEN q[j] ELSE q[j + 1]]

Live(s) == socks[s] \in {"connecting", "open"}

\* socket.write(message): buffered while connecting, sent when open, silently
\* dropped once the socket is destroyed
Write(w, s, msg) ==
  IF s \in SocketIds /\ socks[s] \in {"connecting", "open"}
    THEN [w EXCEPT ![s] = Append(@, msg)]
    ELSE w

\* socket.destroy(): idempotent; the 'close' event follows later
Destroy(ss, s) ==
  IF s \in SocketIds /\ ss[s] \in {"connecting", "open"}
    THEN [ss EXCEPT ![s] = "destroyed"]
    ELSE ss

\* the record kept in `last`: which callback ran, for which call or
\* socket, how it ended, and the header status it saw
Ev(op, id, res, code) ==
  [op |-> op, id |-> id, res |-> res, code |-> code]

NextSocket == CHOOSE s \in SocketIds : socks[s] = "unused" /\ \A t \in SocketIds : t < s => socks[t] # "unused"
NextRequest == CHOOSE r \in RequestIds : reqs[r].st = "none" /\ \A t \in RequestIds : t < r => reqs[t].st # "none"
NextDisconnect == CHOOSE d \in DisconnectIds : discs[d].st = "none" /\ \A t \in DisconnectIds : t < d => discs[t].st # "none"

NoRequest == [st |-> "none", err |-> "", code |-> 0, timer |-> FALSE, handle |-> 0, sock |-> 0, by |-> 0]
\* inflight: the requests that were pending when disconnect() was called
NoDisconnect == [st |-> "none", sock |-> 0, handle |-> 0, wrote |-> FALSE, emitted |-> 0,
                 inflight |-> {}]

InitConnection ==
  /\ connected = FALSE
  /\ sessionHandle = 0
  /\ socket = 0
  /\ connectCb = 0
  /\ pendingResponse = 0
  /\ socks = [s \in SocketIds |-> "unused"]
  /\ connFut = [s \in SocketIds |-> NoFuture]
  /\ reqs = [r \in RequestIds |-> NoRequest]
  /\ discs = [d \in DisconnectIds |-> NoDisconnect]
  /\ wire = [s \in SocketIds |-> <<>>]
  /\ crashed = FALSE
  /\ last = Ev("init", 0, "", 0)

\* no readTags() call, an empty tag table, no function applied
\* (results: for each name, the position it was read at and the error message,
\* "" for a value; req: the request readTag is waiting for; done: the names
\* read so far)
NoBatch == [st |-> "none", names |-> <<>>, i |-> 0, results |-> <<>>, req |-> 0,
            done |-> <<>>]
NoCall == [fn |-> "none"]
\* QUEUE as CREATE TABLE leaves it, and register.js before its first round
EmptyDatabase == [QUEUE |-> {}, seq |-> 0]
NotStarted == [rounds |-> 0, jobs |-> {}]
NotApplied == [err |-> "not applied", v |-> <<>>]
\* the identity of a simulator constructed without options; the name is
\* 'EtherNet/IP Simulator'
DefaultDevice ==
  [vendorId |-> 1, deviceType |-> 12, productCode |-> 1,
   revision |-> [major |-> 1, minor |-> 0],
   serialNumber |-> [t |-> "number", neg |-> FALSE, hi |-> 0, lo |-> 12345, half |-> 0],
   productName |-> <<69, 116, 104, 101, 114, 78, 101, 116, 47, 73, 80, 32,
                     83, 105, 109, 117, 108, 97, 116, 111, 114>>,
   status |-> 0, state |-> 0]
\* no discovery call has been made; a PLCDiscovery object as constructed
NoDiscover == [fn |-> "none"]
NewScanner ==
  [socket |-> "null", isDiscovering |-> FALSE, interval |-> FALSE, listening |-> FALSE,
   binding |-> 0, discoveredDevices |-> <<>>, emitted |-> <<>>, sent |-> 0, heard |-> 0,
   starts |-> 0, threw |-> FALSE]

Idle ==
  /\ batch = NoBatch
  /\ tags = <<>>
  /\ arg = NoCall
  /\ ret = NotApplied
  /\ sessions = <<>>
  /\ nextSessionHandle = 1
  /\ deviceInfo = DefaultDevice
  /\ discover = NoDiscover
  /\ scanner = NewScanner
  /\ db = EmptyDatabase
  /\ register = NotStarted
  /\ api = {}

Init == InitConnection /\ Idle

\* ---- EIPConnection.connect ----
Connect ==
  /\ ~crashed
  /\ IF connected
       THEN /\ last' = Ev("connect", 0, "resolved", 0)
            /\ UNCHANGED <<connected, sessionHandle, socket, connectCb, pendingResponse,
                           socks, connFut, reqs, discs, wire, crashed>>
       ELSE /\ \E s \in SocketIds : socks[s] = "unused"
            /\ LET s == NextSocket IN
                 /\ socks' = [socks EXCEPT ![s] = "connecting"]
                 /\ socket' = s
                 /\ connectCb' = s
                 /\ connFut' = [connFut EXCEPT ![s] = PendingFuture]
                 /\ last' = Ev("connect", s, "pending", 0)
            /\ UNCHANGED <<connected, sessionHandle, pendingResponse, reqs, discs,
                           wire, crashed>>

\* ---- socket.on('connect') and EIPConnection._registerSession ----
\* the message goes to this.socket, whichever socket reported 'connect'
SocketConnect(s) ==
  /\ ~crashed
  /\ socks[s] = "connecting"
  /\ socks' = [socks EXCEPT ![s] = "open"]
  /\ IF socket = 0
       THEN /\ crashed' = TRUE
            /\ wire' = wire
            /\ last' = Ev("socketConnect", s, "threw", 0)
       ELSE /\ crashed' = crashed
            /\ wire' = Write(wire, socket,
                             [command |-> REGISTER_SESSION, sessionHandle |-> 0, req |-> 0])
            /\ last' = Ev("socketConnect", s, "", 0)
  /\ UNCHANGED <<connected, sessionHandle, socket, connectCb, pendingResponse,
                 connFut, reqs, discs>>

\* ---- the server ----
\* what one 'data' event on socket s can carry: fewer bytes than a header, or
\* the answer to a message written on s that has not been answered yet
ShortData ==
  [length |-> HEADER_SIZE - 1, command |-> 0, status |-> 0, sessionHandle |-> 0,
   re |-> 0, idx |-> 0]

Answers(s, i) ==
  LET q == wire[s][i] IN
  IF q.command = REGISTER_SESSION
    THEN {[length |-> HEADER_SIZE, command |-> REGISTER_SESSION, status |-> st,
           sessionHandle |-> h, re |-> 0, idx |-> i] :
             st \in StatusCodes, h \in Handles}
    ELSE {[length |-> HEADER_SIZE, command |-> q.command, status |-> st,
           sessionHandle |-> q.sessionHandle, re |-> q.req, idx |-> i] :
             st \in (IF q.command = SEND_RR_DATA THEN StatusCodes ELSE {0})}

ServerMessages(s) ==
  {ShortData} \cup
  UNION {Answers(s, i) : i \in 1..Len(wire[s])}

\* ---- EIPConnection._handleData ----
\* RegisterSession reply, status 0
registerOk(data) ==
  /\ sessionHandle' = data.sessionHandle
  /\ connected' = TRUE
  /\ connFut' = IF connectCb # 0
                  THEN [connFut EXCEPT ![connectCb] = Resolve(@)]
                  ELSE connFut
  /\ connectCb' = 0
  /\ UNCHANGED <<pendingResponse, reqs>>

\* a faulty variant of registerFailed: the reply's status is not looked at
registerFailed_AsSuccess(data) ==
  registerOk(data)

\* RegisterSession reply, status # 0
registerFailed(data) ==
  /\ connFut' = IF connectCb # 0
                  THEN [connFut EXCEPT ![connectCb] =
                          Reject(@, getDetailedError(data.status).message, data.status)]
                  ELSE connFut
  /\ connectCb' = 0
  /\ UNCHANGED <<connected, sessionHandle, pendingResponse, reqs>>

\* any other command while a request holds the pending-response slot
response(data) ==
  /\ reqs' = [reqs EXCEPT ![pendingResponse] =
                IF data.status # 0
                  THEN [Reject(@, getDetailedError(data.status).message, data.status)
                          EXCEPT !.timer = FALSE]
                  ELSE [Resolve(@) EXCEPT !.timer = FALSE,
                          !.by = IF reqs[pendingResponse].st = "pending"
                                   THEN data.re ELSE @]]
  /\ pendingResponse' = 0
  /\ UNCHANGED <<connected, sessionHandle, connectCb, connFut>>

\* `last` names the delivery: "short", "register" (id: the connect() call whose
\* callbacks were stored) or "data" (id: the request that held the slot, 0 if
\* the message was dropped), with the header status
handleData(data) ==
  IF data.length < HEADER_SIZE
    THEN /\ last' = Ev("short", 0, "", 0)
         /\ UNCHANGED <<connected, sessionHandle, connectCb, pendingResponse, connFut, reqs>>
  ELSE IF data.command = REGISTER_SESSION
    THEN /\ last' = Ev("register", connectCb, "", data.status)
         /\ IF data.status = 0 THEN registerOk(data) ELSE registerFailed(data)
  ELSE /\ last' = Ev("data", pendingResponse, "", data.status)
       /\ IF pendingResponse # 0
            THEN response(data)
            ELSE UNCHANGED <<connected, sessionHandle, connectCb, pendingResponse, connFut, reqs>>

\* ---- socket.on('data') ----
SocketData(s, data) ==
  /\ ~crashed
  /\ socks[s] = "open"
  /\ data \in ServerMessages(s)
  /\ wire' = IF data.idx # 0 THEN [wire EXCEPT ![s] = Remove(@, data.idx)] ELSE wire
  /\ handleData(data)
  /\ UNCHANGED <<socket, socks, discs, crashed>>

\* ---- socket.on('error') ----
SocketError(s) ==
  /\ ~crashed
  /\ Live(s)
  /\ socks' = [socks EXCEPT ![s] = "errored"]
  /\ connected' = FALSE
  /\ connFut' = [connFut EXCEPT ![s] = Reject(@, "socket error", 0)]
  /\ last' = Ev("error", s, socks[s], 0)
  /\ UNCHANGED <<sessionHandle, socket, connectCb, pendingResponse, reqs, discs,
                 wire, crashed>>

\* ---- socket.on('close') ----
\* follows an error or a destroy(), or comes unsolicited when the peer closes
SocketClose(s) ==
  /\ ~crashed
  /\ socks[s] \in {"open", "errored", "destroyed"}
  /\ socks' = [socks EXCEPT ![s] = "closed"]
  /\ connected' = FALSE
  /\ sessionHandle' = 0
  /\ last' = Ev("close", s, socks[s], 0)
  /\ UNCHANGED <<socket, connectCb, pendingResponse, connFut, reqs, discs, wire, crashed>>

\* ---- socket.on('timeout') ----
\* the idle timer armed by socket.setTimeout(this.timeout); it destroys
\* this.socket, whichever socket timed out
SocketTimeout(s) ==
  /\ ~crashed
  /\ Live(s)
  /\ IF socket = 0
       THEN /\ crashed' = TRUE
            /\ last' = Ev("socketTimeout", s, "threw", 0)
            /\ UNCHANGED <<socks, connFut>>
       ELSE /\ crashed' = crashed
            /\ socks' = Destroy(socks, socket)
            /\ connFut' = [connFut EXCEPT ![s] = Reject(@, "Connection timeout", 0)]
            /\ last' = Ev("socketTimeout", s, "", 0)
  /\ UNCHANGED <<connected, sessionHandle, socket, connectCb, pendingResponse, reqs,
                 discs, wire>>

\* ---- EIPConnection.sendRequest, called by EthernetIPDriver.readTag or directly ----
\* a faulty variant of sendRequestRefuses: the check is missing
sendRequestRefuses_Never == FALSE

\* if (!this.connected) throw new Error('Not connected')
sendRequestRefuses == ~connected

\* via = "readTag": the driver checks connection.connected first and builds the
\* request with connection.sessionHandle; via = "sendRequest": a direct caller
\* (tagBrowser, deviceInfo) builds it with connection.sessionHandle as well
SendRequest(via) ==
  /\ ~crashed
  /\ IF via = "readTag" /\ ~connected
       THEN /\ last' = Ev(via, 0, "notConnected", 0)
            /\ UNCHANGED <<pendingResponse, reqs, wire>>
     ELSE IF sendRequestRefuses
       THEN /\ last' = Ev(via, 0, "notConnected", 0)
            /\ UNCHANGED <<pendingResponse, reqs, wire>>
       ELSE /\ \E r \in RequestIds : reqs[r].st = "none"
            /\ LET r == NextRequest
                   message == [command |-> SEND_RR_DATA, sessionHandle |-> sessionHandle, req |-> r]
               IN /\ pendingResponse' = r
                  /\ IF socket = 0
                       THEN /\ reqs' = [reqs EXCEPT ![r] =
                                          [NoRequest EXCEPT !.st = "rejected", !.err = "TypeError",
                                             !.timer = TRUE, !.handle = sessionHandle]]
                            /\ wire' = wire
                            /\ last' = Ev(via, r, "threw", 0)
                       ELSE /\ reqs' = [reqs EXCEPT ![r] =
                                          [NoRequest EXCEPT !.st = "pending", !.timer = TRUE,
                                             !.handle = sessionHandle, !.sock = socket]]
                            /\ wire' = Write(wire, socket, message)
                            /\ last' = Ev(via, r, "pending", 0)
  /\ UNCHANGED <<connected, sessionHandle, socket, connectCb, socks, connFut, discs, crashed>>

\* the message of the error the call in `last` was refused with
LastError ==
  IF last.res # "notConnected" THEN ""
  ELSE IF last.op = "readTag" THEN "Not connected to PLC" ELSE "Not connected"

\* ---- the setTimeout callback armed by sendRequest ----
\* a faulty variant of RequestTimeout: the pending-response slot is not cleared
RequestTimeout_KeepSlot(r) ==
  /\ ~crashed
  /\ reqs[r].timer
  /\ reqs' = [reqs EXCEPT ![r] = [Reject(@, "Request timeout", 0) EXCEPT !.timer = FALSE]]
  /\ last' = Ev("requestTimeout", r, reqs[r].st, 0)
  /\ UNCHANGED <<connected, sessionHandle, socket, connectCb, pendingResponse, socks,
                 connFut, discs, wire, crashed>>

\* a faulty variant of RequestTimeout: only the request that holds the
\* pending-response slot is rejected
RequestTimeout_IfHoldsSlot(r) ==
  /\ ~crashed
  /\ reqs[r].timer
  /\ pendingResponse' = 0
  /\ reqs' = [reqs EXCEPT ![r] = IF pendingResponse = r
                                    THEN [Reject(@, "Request timeout", 0) EXCEPT !.timer = FALSE]
                                    ELSE [@ EXCEPT !.timer = FALSE]]
  /\ last' = Ev("requestTimeout", r, reqs[r].st, 0)
  /\ UNCHANGED <<connected, sessionHandle, socket, connectCb, socks, connFut, discs,
                 wire, crashed>>

RequestTimeout(r) ==
  /\ ~crashed
  /\ reqs[r].timer
  /\ pendingResponse' = 0
  /\ reqs' = [reqs EXCEPT ![r] = [Reject(@, "Request timeout", 0) EXCEPT !.timer = FALSE]]
  /\ last' = Ev("requestTimeout", r, reqs[r].st, 0)
  /\ UNCHANGED <<connected, sessionHandle, socket, connectCb, socks, connFut, discs,
                 wire, crashed>>

\* the requests pending at this moment
InFlight == {r \in RequestIds : reqs[r].st = "pending"}

\* ---- EIPConnection._closeSocket ----
\* (a disconnect() that closes at once notes here what was in flight)
\* a faulty variant of closeSocket: the session handle is not reset
closeSocket_KeepHandle(d) ==
  /\ socks' = Destroy(socks, socket)
  /\ socket' = 0
  /\ connected' = FALSE
  /\ sessionHandle' = sessionHandle
  /\ discs' = [discs EXCEPT ![d] =
                 [@ EXCEPT !.st = "resolved", !.emitted = @ + 1,
                           !.inflight = IF discs[d].st = "none" THEN InFlight ELSE @]]

closeSocket(d) ==
  /\ socks' = Destroy(socks, socket)
  /\ socket' = 0
  /\ connected' = FALSE
  /\ sessionHandle' = 0
  /\ discs' = [discs EXCEPT ![d] =
                 [@ EXCEPT !.st = "resolved", !.emitted = @ + 1,
                           !.inflight = IF discs[d].st = "none" THEN InFlight ELSE @]]

\* ---- EIPConnection.disconnect ----
Disconnect ==
  /\ ~crashed
  /\ IF ~connected \/ socket = 0
       THEN /\ last' = Ev("disconnect", 0, "resolved", 0)
            /\ UNCHANGED <<connected, sessionHandle, socket, socks, discs, wire>>
       ELSE /\ \E d \in DisconnectIds : discs[d].st = "none"
            /\ LET d == NextDisconnect IN
                 IF sessionHandle # 0
                   THEN /\ wire' = Write(wire, socket,
                                         [command |-> UNREGISTER_SESSION,
                                          sessionHandle |-> sessionHandle, req |-> 0])
                        /\ discs' = [discs EXCEPT ![d] =
                                       [st |-> "grace", sock |-> socket, handle |-> sessionHandle,
                                        wrote |-> Live(socket), emitted |-> 0,
                                        inflight |-> InFlight]]
                        /\ last' = Ev("disconnect", d, "pending", 0)
                        /\ UNCHANGED <<connected, sessionHandle, socket, socks>>
                   ELSE /\ closeSocket(d)
                        /\ last' = Ev("disconnect", d, "resolved", 0)
                        /\ wire' = wire
  /\ UNCHANGED <<connectCb, pendingResponse, connFut, reqs, crashed>>

\* ---- the 100 ms setTimeout callback armed by disconnect ----
DisconnectTimer(d) ==
  /\ ~crashed
  /\ discs[d].st = "grace"
  /\ closeSocket(d)
  /\ last' = Ev("disconnectTimer", d, "resolved", 0)
  /\ UNCHANGED <<connectCb, pendingResponse, connFut, reqs, wire, crashed>>

Next ==
  \/ Connect /\ UNCHANGED <<batch, tags, sim, udp, app, reg>>
  \/ \E s \in SocketIds : SocketConnect(s) /\ UNCHANGED <<batch, tags, sim, udp, app, reg>>
  \/ \E s \in SocketIds : \E data \in ServerMessages(s) : SocketData(s, data) /\ UNCHANGED <<batch, tags, sim, udp, app, reg>>
  \/ \E s \in SocketIds : SocketError(s) /\ UNCHANGED <<batch, tags, sim, udp, app, reg>>
  \/ \E s \in SocketIds : SocketClose(s) /\ UNCHANGED <<batch, tags, sim, udp, app, reg>>
  \/ \E s \in SocketIds : SocketTimeout(s) /\ UNCHANGED <<batch, tags, sim, udp, app, reg>>
  \/ \E via \in {"readTag", "sendRequest"} : SendRequest(via) /\ UNCHANGED <<batch, tags, sim, udp, app, reg>>
  \/ \E r \in RequestIds : RequestTimeout(r) /\ UNCHANGED <<batch, tags, sim, udp, app, reg>>
  \/ Disconnect /\ UNCHANGED <<batch, tags, sim, udp, app, reg>>
  \/ \E d \in DisconnectIds : DisconnectTimer(d) /\ UNCHANGED <<batch, tags, sim, udp, app, reg>>

Spec == Init /\ [][Next]_vars

\* ---- the single-outstanding-request discipline of the caller ----
\* each sendRequest is issued only after the previous one has settled
SendRequestSingle(via) ==
  /\ \A r \in RequestIds : reqs[r].st # "pending"
  /\ SendRequest(via)

NextSingle ==
  \/ Connect /\ UNCHANGED <<batch, tags, sim, udp, app, reg>>
  \/ \E s \in SocketIds : SocketConnect(s) /\ UNCHANGED <<batch, tags, sim, udp, app, reg>>
  \/ \E s \in SocketIds : \E data \in ServerMessages(s) : SocketData(s, data) /\ UNCHANGED <<batch, tags, sim, udp, app, reg>>
  \/ \E s \in SocketIds : SocketError(s) /\ UNCHANGED <<batch, tags, sim, udp, app, reg>>
  \/ \E s \in SocketIds : SocketClose(s) /\ UNCHANGED <<batch, tags, sim, udp, app, reg>>
  \/ \E s \in SocketIds : SocketTimeout(s) /\ UNCHANGED <<batch, tags, sim, udp, app, reg>>
  \/ \E via \in {"readTag", "sendRequest"} : SendRequestSingle(via) /\ UNCHANGED <<batch, tags, sim, udp, app, reg>>
  \/ \E r \in RequestIds : RequestTimeout(r) /\ UNCHANGED <<batch, tags, sim, udp, app, reg>>
  \/ Disconnect /\ UNCHANGED <<batch, tags, sim, udp, app, reg>>
  \/ \E d \in DisconnectIds : DisconnectTimer(d) /\ UNCHANGED <<batch, tags, sim, udp, app, reg>>

SpecSingle == Init /\ [][NextSingle]_vars

TypeOK ==
  /\ connected \in BOOLEAN
  /\ sessionHandle \in Handles
  /\ socket \in {0} \cup SocketIds
  /\ connectCb \in {0} \cup SocketIds
  /\ pendingResponse \in {0} \cup RequestIds
  /\ \A s \in SocketIds :
       socks[s] \in {"unused", "connecting", "open", "errored", "destroyed", "closed"}

\* ---- what the callback in `last` did ----
\* a connect() promise was resolved by the callback that ran last
ConnectResolved ==
  \/ last.op = "connect" /\ last.res = "resolved"
  \/ /\ last.op = "register" /\ last.code = 0 /\ last.id # 0
     /\ connFut[last.id].st = "resolved"

\* a disconnect() promise was resolved by the callback that ran last
DisconnectResolved ==
  last.op \in {"disconnect", "disconnectTimer"} /\ last.res = "resolved"

\* a socket error, or a close that neither an error nor a destroy() announced
SocketLost ==
  last.op = "error" \/ (last.op = "close" /\ last.res = "open")

Vias == {"readTag", "sendRequest"}

\* ---- EthernetIPDriver.constructor: the events the Driver forwards ----
\* what the Driver emitted in the callback that ran last: the Connection's
\* 'connected', 'disconnected' and 'error' are forwarded, its 'close' is not
DriverEmits ==
  IF last.op = "error" THEN {"error"}
  ELSE IF last.op = "register"
    THEN IF last.code = 0 THEN {"connected"} ELSE {"error"}
  ELSE IF last.op = "disconnectTimer" THEN {"disconnected"}
  ELSE IF last.op = "disconnect" /\ last.id # 0 /\ last.res = "resolved" THEN {"disconnected"}
  ELSE {}

\* the Connection is Ready: registered, with a session, on an open socket
Ready ==
  connected /\ sessionHandle # 0 /\ socket # 0 /\ socks[socket] = "open"

\* ---------------------------------------------------------------------
\* C1. Session lifecycle: once connect() has resolved, isConnected() is
\* true and the stored session handle is > 0; once disconnect() has
\* resolved, isConnected() is false; a readTag issued while not connected
\* fails with a 'Not connected' error.
C1_SessionLifecycle ==
  /\ ConnectResolved => connected /\ sessionHandle > 0
  /\ DisconnectResolved => ~connected
  /\ (last.op = "readTag" /\ ~connected) => last.res = "notConnected"

\* C2. Request/response correlation under the single-outstanding-request
\* discipline (SpecSingle): every sendRequest that resolves is resolved
\* with the server's response to that same request.
C2_ResolvedByOwnResponse ==
  \A r \in RequestIds : reqs[r].st = "resolved" => reqs[r].by = r

\* C3. When sendRequest is called while an earlier request is still
\* pending, the second call is queued or fails: it does not take the
\* pending-response slot away from the earlier request, which is still
\* completed by its own response.
C3_EarlierRequestKeepsSlot ==
  (/\ last.op \in Vias
   /\ last.id # 0
   /\ \E r \in RequestIds : r # last.id /\ reqs[r].st = "pending")
  => /\ \E r \in RequestIds : r # last.id /\ reqs[r].st = "pending" /\ pendingResponse = r
     /\ \A r \in RequestIds : reqs[r].st = "resolved" => reqs[r].by = r

\* C4. sendRequest called while the Connection is not connected rejects
\* immediately with 'Not connected': nothing is written to the socket, no
\* timer is armed and the pending-response slot is left unchanged.
C4_NotConnectedRejects ==
  [][(last'.op = "sendRequest" /\ ~connected)
       => /\ last'.res = "notConnected"
          /\ LastError' = "Not connected"
          /\ wire' = wire
          /\ reqs' = reqs
          /\ pendingResponse' = pendingResponse]_vars

\* a sendRequest was refused while an earlier request still held the slot and
\* its timer
C4_Witness ==
  /\ last.op = "sendRequest" /\ last.res = "notConnected" /\ ~connected
  /\ pendingResponse # 0
  /\ reqs[pendingResponse].timer

\* C5. When the timer of a waiting request fires, the request is rejected
\* with 'Request timeout' and the pending-response slot is cleared; a
\* non-RegisterSession message that arrives while the slot is empty settles
\* no promise and leaves connected and sessionHandle unchanged.
C5_TimeoutAndLateResponse ==
  /\ [](last.op = "requestTimeout"
          => /\ pendingResponse = 0
             /\ ~reqs[last.id].timer
             /\ last.res = "pending"
                  => reqs[last.id].st = "rejected" /\ reqs[last.id].err = "Request timeout")
  /\ [][(last'.op = "data" /\ pendingResponse = 0)
          => UNCHANGED <<connected, sessionHandle, connectCb, pendingResponse, connFut, reqs>>]_vars

\* the response to a request that timed out arrived afterwards and was dropped
C5_Witness ==
  /\ last.op = "data" /\ last.id = 0
  /\ \E r \in RequestIds : reqs[r].st = "rejected" /\ reqs[r].err = "Request timeout"
  /\ connected

\* C6. In every reachable state connected = true implies sessionHandle # 0,
\* and every request written other than RegisterSession carries a nonzero
\* session handle.
C6_ConnectedHasSession ==
  /\ connected => sessionHandle # 0
  /\ \A r \in RequestIds : reqs[r].st # "none" => reqs[r].handle # 0

\* C7. After a socket error or an unsolicited socket close, connected = false
\* and sessionHandle = 0 both hold as soon as the event's handler has run.
C7_SocketLostMeansDisconnected ==
  SocketLost => ~connected /\ sessionHandle = 0

\* C8. A sendRequest that is in flight on a socket when that socket errors or
\* is closed unsolicited is rejected by that event and its pending-response
\* slot is released.
C8_SocketLostRejectsRequest ==
  SocketLost =>
    \A r \in RequestIds :
      reqs[r].sock = last.id => reqs[r].st # "pending" /\ pendingResponse # r

\* C9. When a RegisterSession reply with a nonzero status is handled, the
\* waiting connect() future is rejected with an error carrying that status
\* code and its classification, and connected and sessionHandle stay as they
\* were: a Disconnected Connection remains Disconnected.
C9_RegisterFailureRejectsConnect ==
  [][(last'.op = "register" /\ last'.code # 0)
       => /\ connected' = connected
          /\ sessionHandle' = sessionHandle
          /\ (connectCb # 0 /\ connFut[connectCb].st = "pending")
               => connFut'[connectCb] =
                    [st |-> "rejected",
                     err |-> getEIPStatusMessage(last'.code),
                     code |-> last'.code]]_vars

\* connect() was rejected with the status of the reply and the Connection is
\* Disconnected
C9_Witness ==
  /\ last.op = "register" /\ last.code = 101 /\ last.id # 0
  /\ connFut[last.id] = [st |-> "rejected", err |-> "Invalid session handle", code |-> 101]
  /\ ~connected /\ sessionHandle = 0

\* C10. disconnect() called in Ready writes an UnregisterSession carrying
\* the current session handle while the socket is still open; the grace
\* timer then closes the socket the Connection holds, whether or not the
\* server answered, and when the promise resolves connected = false,
\* sessionHandle = 0 and exactly one `disconnected` notification has been
\* emitted for that call.
C10_DisconnectInReady ==
  /\ [][(last'.op = "disconnect" /\ Ready)
          => /\ wire' = [wire EXCEPT ![socket] =
                           Append(@, [command |-> UNREGISTER_SESSION,
                                      sessionHandle |-> sessionHandle, req |-> 0])]
             /\ socks' = socks
             /\ last'.res = "pending"
             /\ discs'[last'.id].st = "grace"]_vars
  /\ [][(last'.op = "disconnectTimer")
          => /\ ~connected'
             /\ sessionHandle' = 0
             /\ socket' = 0
             /\ socket # 0 => socks'[socket] \notin {"connecting", "open"}
             /\ discs'[last'.id].st = "resolved"
             /\ discs'[last'.id].emitted = 1]_vars

\* a disconnect() issued in Ready resolved while its UnregisterSession was
\* still unanswered
C10_Witness ==
  /\ last.op = "disconnectTimer"
  /\ discs[last.id].wrote
  /\ \E i \in 1..Len(wire[discs[last.id].sock]) :
       wire[discs[last.id].sock][i].command = UNREGISTER_SESSION
  /\ ~connected /\ sessionHandle = 0 /\ discs[last.id].emitted = 1

\* =========================================================================
\* Byte-level functions.  A Buffer is a sequence of bytes 0..255 indexed
\* from offset 0 (At).  A JavaScript number is kept as sign and magnitude,
\* the magnitude as two 16-bit limbs and a half: hi * 65536 + lo + half / 2,
\* which holds every 32-bit integer exactly (hi stays below 2^20).  Zero is
\* never negative.
\* =========================================================================
Number(neg, hi, lo, half) ==
  [t |-> "number", neg |-> neg, hi |-> hi, lo |-> lo, half |-> half]

\* the number of an integer literal below 2^31
N(i) ==
  LET m == IF i < 0 THEN 0 - i ELSE i
  IN Number(i < 0, m \div 65536, m % 65536, 0)

\* a <= b
Le(a, b) ==
  LET MagLe(x, y) ==
        \/ x.hi < y.hi
        \/ x.hi = y.hi /\ x.lo < y.lo
        \/ x.hi = y.hi /\ x.lo = y.lo /\ x.half <= y.half
  IN IF a.neg /\ ~b.neg THEN TRUE
     ELSE IF ~a.neg /\ b.neg THEN FALSE
     ELSE IF a.neg THEN MagLe(b, a)
     ELSE MagLe(a, b)

\* a function returned v, or threw an Error with message e
Ok(v) == [err |-> "", v |-> v]
Throw(e) == [err |-> e, v |-> <<>>]

\* buffer[offset]; -1 stands for undefined (an offset past the end)
At(buffer, offset) ==
  IF offset >= 0 /\ offset < Len(buffer) THEN buffer[offset + 1] ELSE 0 - 1

\* buffer.slice(start, end)
Slice(buffer, start, end) ==
  LET e == IF end > Len(buffer) THEN Len(buffer) ELSE end
  IN IF start >= e THEN <<>> ELSE SubSeq(buffer, start + 1, e)

\* ---- Buffer.writeInt8/Int16LE/Int32LE/UInt16LE/UInt32LE ----
\* the smallest and largest value of an n-byte integer
IntMin(n, signed) ==
  IF ~signed THEN N(0)
  ELSE IF n = 4 THEN Number(TRUE, 32768, 0, 0)
  ELSE N(0 - 2^(8 * n - 1))

IntMax(n, signed) ==
  IF n = 4 THEN Number(FALSE, IF signed THEN 32767 ELSE 65535, 65535, 0)
  ELSE N(2^(IF signed THEN 8 * n - 1 ELSE 8 * n) - 1)

\* the low n bytes of the two's complement of v (its integer part), low byte
\* first: what a typed-array store keeps of a number
StoreLE(v, n) ==
  LET ul == IF v.neg THEN (65536 - v.lo) % 65536 ELSE v.lo
      uh == IF v.neg
              THEN (65535 - (v.hi % 65536) + (IF v.lo = 0 THEN 1 ELSE 0)) % 65536
              ELSE v.hi % 65536
  IN SubSeq(<<ul % 256, ul \div 256, uh % 256, uh \div 256>>, 1, n)

\* writeInt*/writeUInt*: throws ERR_OUT_OF_RANGE outside the type's range
writeIntLE(v, n, signed) ==
  IF Le(IntMin(n, signed), v) /\ Le(v, IntMax(n, signed))
    THEN Ok(StoreLE(v, n))
    ELSE Throw("RangeError")

\* a faulty variant of readIntLE: every read is unsigned
readIntLE_Unsigned(buffer, offset, n, signed) ==
  IF offset < 0 \/ offset + n > Len(buffer) THEN [err |-> "RangeError", v |-> <<>>]
  ELSE
    LET b(i) == IF i < n THEN buffer[offset + i + 1] ELSE 0
    IN [err |-> "",
        v |-> [t |-> "number", neg |-> FALSE, hi |-> b(3) * 256 + b(2),
               lo |-> b(1) * 256 + b(0), half |-> 0]]

\* readInt8/Int16LE/Int32LE/UInt16LE/UInt32LE at offset; throws past the end
readIntLE(buffer, offset, n, signed) ==
  IF offset < 0 \/ offset + n > Len(buffer) THEN Throw("RangeError")
  ELSE
    LET b(i) == IF i < n THEN buffer[offset + i + 1]
                ELSE IF signed /\ buffer[offset + n] >= 128 THEN 255 ELSE 0
        ul == b(1) * 256 + b(0)
        uh == b(3) * 256 + b(2)
    IN IF signed /\ uh >= 32768
         THEN Ok(Number(TRUE, 65535 - uh + (IF ul = 0 THEN 1 ELSE 0),
                        (65536 - ul) % 65536, 0))
         ELSE Ok(Number(FALSE, uh, ul, 0))

\* ---- Buffer.writeFloatLE/writeDoubleLE, readFloatLE/readDoubleLE ----
\* the k low bits of x, high bit first, and back
Bits(x, k) == [i \in 1..k |-> (x \div 2^(k - i)) % 2]

FromBits(bs) ==
  LET f[i \in 0..Len(bs)] == IF i = 0 THEN 0 ELSE 2 * f[i - 1] + bs[i]
  IN f[Len(bs)]

Zeros(k) == [i \in 1..k |-> 0]

\* IEEE 754 with expBits exponent bits and manBits fraction bits, low byte
\* first; a fraction that does not fit is rounded to nearest, ties to even
writeFloatLE(v, expBits, manBits) ==
  LET n == (1 + expBits + manBits) \div 8
      bias == 2^(expBits - 1) - 1
      m == Bits(v.hi, 20) \o Bits(v.lo, 16) \o <<v.half>>
      p == CHOOSE i \in 1..37 : m[i] = 1 /\ \A j \in 1..(i - 1) : m[j] = 0
      e == 36 - p
      tail == SubSeq(m, p + 1, 37)
      kept == FromBits(SubSeq(tail, 1, manBits))
      rest == SubSeq(tail, manBits + 1, Len(tail))
      up == \/ FromBits(rest) > 2^(Len(rest) - 1)
            \/ FromBits(rest) = 2^(Len(rest) - 1) /\ kept % 2 = 1
      word == IF Len(tail) <= manBits
                THEN Bits(e + bias, expBits) \o tail \o Zeros(manBits - Len(tail))
              ELSE IF up /\ kept + 1 = 2^manBits
                THEN Bits(e + 1 + bias, expBits) \o Zeros(manBits)
              ELSE Bits(e + bias, expBits) \o Bits(IF up THEN kept + 1 ELSE kept, manBits)
      all == <<IF v.neg THEN 1 ELSE 0>> \o word
  IN IF v.hi = 0 /\ v.lo = 0 /\ v.half = 0 THEN Zeros(n)
     ELSE [j \in 1..n |-> FromBits(SubSeq(all, 8 * (n - j) + 1, 8 * (n - j) + 8))]

\* a number off the grid of halves below 2^36 comes back with hi = -1
readFloatLE(buffer, offset, expBits, manBits) ==
  LET n == (1 + expBits + manBits) \div 8
      bias == 2^(expBits - 1) - 1
      bytes == [j \in 1..n |-> buffer[offset + n - j + 1]]
      sign == bytes[1] \div 128
      E == FromBits(Tail(Bits(bytes[1], 8)) \o Bits(bytes[2] \div 2^(15 - expBits), expBits - 7))
      first == Bits(bytes[2] % 2^(15 - expBits), 15 - expBits)
      man == IF n = 4
               THEN first \o Bits(bytes[3], 8) \o Bits(bytes[4], 8)
               ELSE first \o Bits(bytes[3], 8) \o Bits(bytes[4], 8) \o Bits(bytes[5], 8)
                      \o Bits(bytes[6], 8) \o Bits(bytes[7], 8) \o Bits(bytes[8], 8)
      e == E - bias
      s == <<1>> \o man \o Zeros(37)
      int == Zeros(35 - e) \o SubSeq(s, 1, e + 1)
      fine == \A i \in (e + 3)..(1 + manBits) : s[i] = 0
  IN IF offset < 0 \/ offset + n > Len(buffer) THEN Throw("RangeError")
     ELSE IF E = 0 /\ \A i \in 1..manBits : man[i] = 0 THEN Ok(N(0))
     ELSE IF e < 0 - 1 \/ e > 35 \/ ~fine THEN Ok(Number(sign = 1, 0 - 1, 0, 0))
     ELSE Ok(Number(sign = 1, FromBits(SubSeq(int, 1, 20)), FromBits(SubSeq(int, 21, 36)),
                    s[e + 2]))

\* ---- JavaScript values other than numbers ----
\* a string is the sequence of its UTF-16 code units
Boolean(b) == [t |-> "boolean", b |-> b]
String(s) == [t |-> "string", s |-> s]
Undefined == [t |-> "undefined"]

\* buffer.write(string, 'ascii') keeps the low byte of every code unit;
\* buffer.toString('ascii') clears the high bit of every byte
AsciiWrite(s) == [i \in 1..Len(s) |-> s[i] % 256]
AsciiToString(bytes) == [i \in 1..Len(bytes) |-> bytes[i] % 128]

\* ---- CIP data type codes (the case labels of encodeValue) ----
CIP_BOOL == 193
CIP_SINT == 194
CIP_INT == 195
CIP_DINT == 196
CIP_USINT == 198
CIP_UINT == 199
CIP_UDINT == 200
CIP_REAL == 202
CIP_LREAL == 203
CIP_STRING == 218

\* ---- utils.js: encodeValue ----
\* value is of the JavaScript type its case expects
encodeValue(dataType, value) ==
  CASE dataType = CIP_BOOL -> Ok(<<IF value.b THEN 255 ELSE 0>>)
    [] dataType = CIP_SINT -> writeIntLE(value, 1, TRUE)
    [] dataType = CIP_INT -> writeIntLE(value, 2, TRUE)
    [] dataType = CIP_DINT -> writeIntLE(value, 4, TRUE)
    [] dataType = CIP_USINT -> Ok(StoreLE(value, 1))
    [] dataType = CIP_UINT -> writeIntLE(value, 2, FALSE)
    [] dataType = CIP_UDINT -> writeIntLE(value, 4, FALSE)
    [] dataType = CIP_REAL -> Ok(writeFloatLE(value, 8, 23))
    [] dataType = CIP_LREAL -> Ok(writeFloatLE(value, 11, 52))
    [] dataType = CIP_STRING ->
         \* a 256-byte scratch buffer: one length byte, then what fits
         LET strLength == Len(value.s)
         IN Ok(Slice(<<strLength % 256>> \o AsciiWrite(Slice(value.s, 0, 255)),
                     0, 1 + strLength))
    [] OTHER -> Throw("Unsupported data type")

\* ---- utils.js: decodeValue ----
decodeValue(dataType, buffer, offset) ==
  CASE dataType = CIP_BOOL -> Ok(Boolean(At(buffer, offset) # 0))
    [] dataType = CIP_SINT -> readIntLE(buffer, offset, 1, TRUE)
    [] dataType = CIP_INT -> readIntLE(buffer, offset, 2, TRUE)
    [] dataType = CIP_DINT -> readIntLE(buffer, offset, 4, TRUE)
    [] dataType = CIP_USINT ->
         IF At(buffer, offset) < 0 THEN Ok(Undefined) ELSE Ok(N(At(buffer, offset)))
    [] dataType = CIP_UINT -> readIntLE(buffer, offset, 2, FALSE)
    [] dataType = CIP_UDINT -> readIntLE(buffer, offset, 4, FALSE)
    [] dataType = CIP_REAL -> readFloatLE(buffer, offset, 8, 23)
    [] dataType = CIP_LREAL -> readFloatLE(buffer, offset, 11, 52)
    [] dataType = CIP_STRING ->
         LET length == IF At(buffer, offset) < 0 THEN 0 ELSE At(buffer, offset)
         IN Ok(String(AsciiToString(Slice(buffer, offset + 1, offset + 1 + length))))
    [] OTHER -> Throw("Unsupported data type")

\* ---- utils.js: buildPath (no Message Router prefix) ----
\* tagName.split('.')
Split(s, sep) ==
  LET at == SelectSeq([i \in 1..Len(s) |-> i], LAMBDA i : s[i] = sep)
      cuts == <<0>> \o at \o <<Len(s) + 1>>
  IN [k \in 1..(Len(at) + 1) |-> SubSeq(s, cuts[k] + 1, cuts[k + 1] - 1)]

\* tagParts.join('.')
Join(parts, sep) ==
  LET f[k \in 0..Len(parts)] ==
        IF k = 0 THEN <<>>
        ELSE IF k = 1 THEN parts[1]
        ELSE f[k - 1] \o <<sep>> \o parts[k]
  IN f[Len(parts)]

DOT == 46        \* '.'
SYMBOLIC == 145  \* 0x91, ANSI extended symbolic segment

buildPath(tagName) ==
  LET segments == Split(tagName, DOT)
      path[k \in 0..Len(segments)] ==
        IF k = 0 THEN <<>>
        ELSE path[k - 1] \o <<SYMBOLIC, Len(segments[k])>> \o AsciiWrite(segments[k])
  IN IF \E k \in 1..Len(segments) : Len(segments[k]) > 255
       THEN Throw("Segment name too long")
       ELSE Ok(path[Len(segments)])

\* ---- utils.js: parsePath ----
\* the loop from position pos on: the high four bits of the segment byte are
\* its format, the low four its value.  A logical segment whose value is
\* above 2 moves the position nowhere: the loop never ends (loops).
parsePath(buffer, offset) ==
  LET End == Len(buffer) + 258
      from[q \in 0..End] ==
        LET pos == End - q
            segmentFormat == (buffer[pos + 1] \div 16) % 16
            segmentValue == buffer[pos + 1] % 16
            length == IF At(buffer, pos + 1) < 0 THEN 0 ELSE At(buffer, pos + 1)
            wide == readIntLE(buffer, pos + 1, IF segmentValue = 1 THEN 2 ELSE 4, FALSE)
            then(seg, n) ==
              LET rest == from[End - (pos + n)]
              IN [rest EXCEPT !.segments = seg \o @]
        IN IF pos >= Len(buffer)
             THEN [err |-> "", loops |-> FALSE, segments |-> <<>>, length |-> pos - offset]
           ELSE IF segmentFormat = 0
             THEN IF segmentValue = 0
                    THEN then(<<[type |-> "logical",
                                 port |-> IF At(buffer, pos + 1) < 0 THEN Undefined
                                          ELSE N(At(buffer, pos + 1))]>>, 2)
                  ELSE IF segmentValue \in {1, 2}
                    THEN IF wide.err # ""
                           THEN [err |-> wide.err, loops |-> FALSE, segments |-> <<>>,
                                 length |-> 0]
                           ELSE then(<<[type |-> "logical", port |-> wide.v]>>,
                                     IF segmentValue = 1 THEN 3 ELSE 5)
                  ELSE [err |-> "", loops |-> TRUE, segments |-> <<>>, length |-> 0]
           ELSE IF segmentFormat = 1
             THEN then(<<>>, 2)
           ELSE IF segmentFormat = 2
             THEN then(<<[type |-> "symbolic",
                          name |-> AsciiToString(Slice(buffer, pos + 2, pos + 2 + length))]>>,
                       2 + length)
           ELSE IF segmentFormat = 3
             THEN then(<<[type |-> "data",
                          data |-> Slice(buffer, pos + 2, pos + 2 + length)]>>,
                       2 + length)
           ELSE [err |-> "", loops |-> FALSE, segments |-> <<>>, length |-> pos - offset]
  IN from[End - offset]

\* ---- simulator.js: PLCSimulator._parseTagNameFromPath ----
\* null comes back as Null; an error thrown by parsePath is caught
Null == [t |-> "null"]

parseTagNameFromPath(cipPath) ==
  LET parsed == parsePath(cipPath, 0)
      symbolic == SelectSeq(parsed.segments,
                            LAMBDA segment : segment.type = "symbolic" /\ segment.name # <<>>)
      tagParts == [k \in 1..Len(symbolic) |-> symbolic[k].name]
  IN IF parsed.err # "" \/ Len(parsed.segments) = 0 \/ Len(tagParts) = 0
       THEN Null
       ELSE String(Join(tagParts, DOT))

\* ---- message.js: buildEIPHeader, parseEIPHeader ----
\* toUInt16LE/toUInt32LE throw outside their range; senderContext.copy stops
\* at the end of the header and the options are written after it
\* a faulty variant of buildEIPHeader: the options are written before the
\* sender context
buildEIPHeader_OptionsFirst(command, length, handle, status, senderContext, options) ==
  LET le(v, n) == SubSeq(<<v.lo % 256, v.lo \div 256, v.hi % 256, v.hi \div 256>>, 1, n)
      fits(v, n) == ~v.neg /\ v.half = 0 /\ (IF n = 2 THEN v.hi = 0 ELSE v.hi < 65536)
  IN IF fits(command, 2) /\ fits(length, 2) /\ fits(handle, 4) /\ fits(status, 4)
          /\ fits(options, 4)
       THEN [err |-> "",
             v |-> le(command, 2) \o le(length, 2) \o le(handle, 4) \o le(status, 4)
                     \o le(options, 4) \o SubSeq(senderContext, 1, 8)]
       ELSE [err |-> "RangeError", v |-> <<>>]

buildEIPHeader(command, length, handle, status, senderContext, options) ==
  LET c == writeIntLE(command, 2, FALSE)
      l == writeIntLE(length, 2, FALSE)
      h == writeIntLE(handle, 4, FALSE)
      s == writeIntLE(status, 4, FALSE)
      o == writeIntLE(options, 4, FALSE)
      context == Slice(senderContext \o Zeros(8), 0, 8)
  IN IF \E w \in {c, l, h, s, o} : w.err # "" THEN Throw("RangeError")
     ELSE Ok(c.v \o l.v \o h.v \o s.v \o context \o o.v)

parseEIPHeader(buffer) ==
  IF Len(buffer) < HEADER_SIZE THEN Throw("RangeError")
  ELSE Ok([command |-> readIntLE(buffer, 0, 2, FALSE).v,
           length |-> readIntLE(buffer, 2, 2, FALSE).v,
           sessionHandle |-> readIntLE(buffer, 4, 4, FALSE).v,
           status |-> readIntLE(buffer, 8, 4, FALSE).v,
           senderContext |-> Slice(buffer, 12, 20),
           options |-> readIntLE(buffer, 20, 4, FALSE).v])

\* ---- message.js: buildSendRRData, buildReadTagRequest, buildWriteTagRequest ----
READ_TAG == 76     \* 0x4C
WRITE_TAG == 77    \* 0x4D

\* a faulty variant of buildSendRRData: the path is not padded
buildSendRRData_NoPadding(handle, cipService, cipPath, cipData, senderContext) ==
  LET pathSize == Len(cipPath) \div 2
      cipPacket == <<cipService, pathSize % 256>> \o cipPath \o cipData
      rrData == <<0, 0, 0, 0, Len(cipPacket) % 256, Len(cipPacket) \div 256>> \o cipPacket
      header == <<111, 0, Len(rrData) % 256, Len(rrData) \div 256,
                  handle.lo % 256, handle.lo \div 256, handle.hi % 256, handle.hi \div 256,
                  0, 0, 0, 0>> \o senderContext \o <<0, 0, 0, 0>>
  IN IF pathSize > 255 THEN [err |-> "CIP path too long", v |-> <<>>]
     ELSE [err |-> "", v |-> header \o rrData]

\* senderContext: the eight bytes drawn from the clock and Math.random()
buildSendRRData(handle, cipService, cipPath, cipData, senderContext) ==
  LET paddedPath == IF Len(cipPath) % 2 = 0 THEN cipPath ELSE cipPath \o <<0>>
      pathSize == Len(paddedPath) \div 2
      cipPacket == <<cipService, pathSize % 256>> \o paddedPath \o cipData
      rrData == <<0, 0, 0, 0>> \o writeIntLE(N(Len(cipPacket)), 2, FALSE).v \o cipPacket
      header == buildEIPHeader(N(SEND_RR_DATA), N(Len(rrData)), handle, N(0),
                               senderContext, N(0))
  IN IF pathSize > 255 THEN Throw("CIP path too long")
     ELSE IF header.err # "" THEN header
     ELSE Ok(header.v \o rrData)

buildReadTagRequest(handle, tagName, elementCount, senderContext) ==
  LET cipPath == buildPath(tagName)
      cipData == writeIntLE(N(elementCount), 2, FALSE)
  IN IF cipPath.err # "" THEN cipPath
     ELSE IF cipData.err # "" THEN cipData
     ELSE buildSendRRData(handle, READ_TAG, cipPath.v, cipData.v, senderContext)

buildWriteTagRequest(handle, tagName, dataType, value, elementCount, senderContext) ==
  LET cipPath == buildPath(tagName)
      encodedValue == encodeValue(dataType, value)
      count == writeIntLE(N(elementCount), 2, FALSE)
  IN IF cipPath.err # "" THEN cipPath
     ELSE IF encodedValue.err # "" THEN encodedValue
     ELSE IF count.err # "" THEN count
     ELSE buildSendRRData(handle, WRITE_TAG, cipPath.v,
                          count.v \o <<dataType>> \o encodedValue.v, senderContext)

\* ---- message.js: parseSendRRDataResponse, parseReadTagResponse ----
\* the message of the Error thrown for a CIP status byte
CipStatusError(cipStatus) ==
  CASE cipStatus = 3 -> "CIP Status error: 0x3"
    [] cipStatus = 8 -> "CIP Status error: 0x8"
    [] cipStatus = 22 -> "CIP Status error: 0x16"
    [] OTHER -> "CIP Status error"

\* a faulty variant of parseSendRRDataResponse: the payload starts at the
\* status byte
parseSendRRDataResponse_FromStatusByte(buffer) ==
  LET command == At(buffer, 0) + 256 * At(buffer, 1)
      status == Number(FALSE, At(buffer, 10) + 256 * At(buffer, 11),
                       At(buffer, 8) + 256 * At(buffer, 9), 0)
      cipLength == At(buffer, 28) + 256 * At(buffer, 29)
  IN IF Len(buffer) < 24 THEN [err |-> "RangeError", v |-> <<>>]
     ELSE IF command # 111 THEN [err |-> "Unexpected command", v |-> <<>>]
     ELSE IF status.hi # 0 \/ status.lo # 0
       THEN [err |-> "EIP Status error", v |-> <<>>, statusCode |-> status]
     ELSE IF Len(buffer) < 30 THEN [err |-> "RangeError", v |-> <<>>]
     ELSE IF Len(buffer) < 31 THEN [err |-> "TypeError", v |-> <<>>]
     ELSE IF buffer[31] # 0 THEN [err |-> "CIP Status error", v |-> <<>>]
     ELSE [err |-> "",
           v |-> [cipStatus |-> 0,
                  cipData |-> Slice(buffer, 30, 30 + cipLength - 1)]]

\* the Error thrown for a nonzero header status carries the status
\* (error.statusCode); a message that ends before the status byte makes
\* toString of undefined throw
parseSendRRDataResponse(buffer) ==
  LET header == parseEIPHeader(buffer)
      cipLength == readIntLE(buffer, 28, 2, FALSE)
      cipStatus == At(buffer, 30)
  IN IF header.err # "" THEN header
     ELSE IF header.v.command # N(SEND_RR_DATA) THEN Throw("Unexpected command")
     ELSE IF header.v.status # N(0)
       THEN [err |-> "EIP Status error", v |-> <<>>, statusCode |-> header.v.status]
     ELSE IF cipLength.err # "" THEN cipLength
     ELSE IF cipStatus < 0 THEN Throw("TypeError")
     ELSE IF cipStatus # 0 THEN Throw(CipStatusError(cipStatus))
     ELSE Ok([cipStatus |-> cipStatus,
              cipData |-> Slice(buffer, 31, 31 + cipLength.v.lo - 1)])

parseReadTagResponse(buffer) ==
  LET reply == parseSendRRDataResponse(buffer)
      elementCount == readIntLE(reply.v.cipData, 1, 2, FALSE)
  IN IF reply.err # "" THEN reply
     ELSE IF Len(reply.v.cipData) < 2
       THEN Throw("Invalid Read Tag response: insufficient data")
     ELSE IF elementCount.err # "" THEN elementCount
     ELSE Ok([dataType |-> reply.v.cipData[1],
              elementCount |-> elementCount.v.lo,
              data |-> Slice(reply.v.cipData, 3, Len(reply.v.cipData)),
              cipStatus |-> reply.v.cipStatus])

\* ---- simulator.js: PLCSimulator.setTag ----
\* the tag table maps a name to its value and type (this.tags, this.tagTypes);
\* dataType 0 is null: the type is inferred
Array(a) == [t |-> "array", a |-> a]

setTag(table, name, value, dataType) ==
  LET inferred == CASE value.t = "boolean" -> CIP_BOOL
                    [] value.t = "number" -> IF value.half = 0 THEN CIP_DINT ELSE CIP_REAL
                    [] value.t = "string" -> CIP_STRING
                    [] OTHER -> CIP_DINT
      entry == [value |-> value, dataType |-> IF dataType = 0 THEN inferred ELSE dataType]
  IN [n \in DOMAIN table \cup {name} |-> IF n = name THEN entry ELSE table[n]]

\* ---- simulator.js: PLCSimulator._handleReadTag ----
\* returns the response data; an Error thrown by encodeValue leaves the handler
OBJECT_DOES_NOT_EXIST == 22   \* 0x16

handleReadTag(table, cipPath, cipData) ==
  LET elementCount == IF Len(cipData) >= 2 THEN readIntLE(cipData, 0, 2, FALSE).v.lo ELSE 1
      answer(tagType, encoded) ==
        LET dataBuffer[k \in 0..Len(encoded)] ==
              IF k = 0 THEN <<>> ELSE dataBuffer[k - 1] \o encoded[k].v
        IN IF \E k \in 1..Len(encoded) : encoded[k].err # ""
             THEN Throw("RangeError")
             ELSE Ok(<<tagType % 256>> \o writeIntLE(N(elementCount), 2, FALSE).v
                       \o dataBuffer[Len(encoded)])
      read(tagValue, tagType) ==
        \* an array tag: tagValue.slice(0, elementCount), each element encoded
        LET values == IF tagValue.t = "array" THEN Slice(tagValue.a, 0, elementCount)
                      ELSE <<tagValue>>
        IN answer(tagType, [k \in 1..Len(values) |-> encodeValue(tagType, values[k])])
      lookup(tagName) ==
        IF tagName = Null \/ tagName.s = <<>> THEN Ok(<<OBJECT_DOES_NOT_EXIST>>)
        ELSE IF tagName.s \notin DOMAIN table THEN Ok(<<OBJECT_DOES_NOT_EXIST>>)
        ELSE read(table[tagName.s].value, table[tagName.s].dataType)
  IN lookup(parseTagNameFromPath(cipPath))

SERVICE_NOT_SUPPORTED == 8    \* 0x08

\* ---- simulator.js: PLCSimulator._handleWriteTag ----
\* a faulty variant of handleWriteTag: the value is acknowledged, not stored
handleWriteTag_NotStored(table, cipPath, cipData) ==
  LET parsed == parsePath(cipPath, 0)
      named == \E k \in 1..Len(parsed.segments) :
                 parsed.segments[k].type = "symbolic" /\ parsed.segments[k].name # <<>>
  IN IF parsed.err # "" \/ ~named THEN [status |-> 22, tags |-> table, emitted |-> <<>>]
     ELSE IF Len(cipData) < 3 THEN [status |-> 3, tags |-> table, emitted |-> <<>>]
     ELSE [status |-> 0, tags |-> table, emitted |-> <<>>]

\* a faulty variant of handleWriteTag: the type of the tag is set before the
\* value is decoded
handleWriteTag_TypeFirst(table, cipPath, cipData) ==
  LET tagName == parseTagNameFromPath(cipPath)
      dataType == cipData[3]
      value == decodeValue(dataType, Slice(cipData, 3, Len(cipData)), 0)
  IN IF tagName = Null \/ tagName.s = <<>>
       THEN [status |-> 22, tags |-> table, emitted |-> <<>>]
     ELSE IF Len(cipData) < 3 THEN [status |-> 3, tags |-> table, emitted |-> <<>>]
     ELSE IF value.err # ""
       THEN [status |-> 3, tags |-> setTag(table, tagName.s, Undefined, dataType),
             emitted |-> <<>>]
     ELSE [status |-> 0, tags |-> setTag(table, tagName.s, value.v, dataType),
           emitted |-> <<[name |-> tagName.s, value |-> value.v, dataType |-> dataType]>>]

\* returns the CIP status, the tag table after the call and the tagChanged
\* events emitted.  The offset of element k of an array is
\* (k - 1) * valueData.length / elementCount; at an offset that is not an
\* integer buffer[offset] is undefined and the read functions throw
handleWriteTag(table, cipPath, cipData) ==
  LET elementCount == readIntLE(cipData, 0, 2, FALSE).v.lo
      dataType == cipData[3]
      valueData == Slice(cipData, 3, Len(cipData))
      decode(k) ==
        IF ((k - 1) * Len(valueData)) % elementCount = 0
          THEN decodeValue(dataType, valueData, ((k - 1) * Len(valueData)) \div elementCount)
        ELSE IF dataType = CIP_BOOL THEN Ok(Boolean(TRUE))
        ELSE IF dataType = CIP_USINT THEN Ok(Undefined)
        ELSE IF dataType = CIP_STRING THEN Ok(String(<<>>))
        ELSE IF dataType \in {CIP_SINT, CIP_INT, CIP_DINT, CIP_UINT, CIP_UDINT, CIP_REAL,
                              CIP_LREAL}
          THEN Throw("ERR_OUT_OF_RANGE")
        ELSE Throw("Unsupported data type")
      keep(name, decoded) ==
        LET value == IF elementCount = 1 THEN decoded[1].v
                     ELSE Array([k \in 1..elementCount |-> decoded[k].v])
        IN IF \E k \in 1..elementCount : decoded[k].err # ""
             THEN [status |-> 3, tags |-> table, emitted |-> <<>>]
             ELSE [status |-> 0,
                   tags |-> setTag(table, name, value, dataType),
                   emitted |-> <<[name |-> name, value |-> value, dataType |-> dataType]>>]
      write(tagName) ==
        IF tagName = Null \/ tagName.s = <<>>
          THEN [status |-> OBJECT_DOES_NOT_EXIST, tags |-> table, emitted |-> <<>>]
        ELSE IF Len(cipData) < 3 THEN [status |-> 3, tags |-> table, emitted |-> <<>>]
        ELSE keep(tagName.s, [k \in 1..elementCount |-> decode(k)])
  IN write(parseTagNameFromPath(cipPath))

\* a faulty variant of handleSendRRData: an unknown service is answered with
\* status 0
handleSendRRData_UnknownServiceOk(handles, table, buffer) ==
  LET cipLength == At(buffer, 28) + 256 * At(buffer, 29)
      cipPacket == Slice(buffer, 30, 30 + cipLength)
      cipPathSize == IF At(cipPacket, 1) < 0 THEN 0 ELSE At(cipPacket, 1)
      cipPath == Slice(cipPacket, 2, 2 + cipPathSize * 2)
      cipData == Slice(cipPacket, 2 + cipPathSize * 2, Len(cipPacket))
      write == handleWriteTag(table, cipPath, cipData)
      read == handleReadTag(table, cipPath, cipData)
      answer(cipStatus, responseData) ==
        <<111, 0, (7 + Len(responseData)) % 256, (7 + Len(responseData)) \div 256>>
          \o Slice(buffer, 4, 8) \o <<0, 0, 0, 0>> \o Slice(buffer, 12, 20)
          \o <<0, 0, 0, 0>> \o Slice(buffer, 24, 28)
          \o <<(1 + Len(responseData)) % 256, (1 + Len(responseData)) \div 256, cipStatus>>
          \o responseData
  IN IF Len(buffer) < 30 \/ Len(cipPacket) < 1
          \/ \A h \in handles : h # parseEIPHeader(buffer).v.sessionHandle
       THEN [reply |-> <<>>, tags |-> table]
     ELSE IF cipPacket[1] = 76
       THEN IF read.err # "" THEN [reply |-> <<>>, tags |-> table]
            ELSE [reply |-> answer(0, read.v), tags |-> table]
     ELSE IF cipPacket[1] = 77
       THEN [reply |-> answer(write.status, <<>>), tags |-> write.tags]
     ELSE [reply |-> answer(0, <<>>), tags |-> table]

\* ---- simulator.js: PLCSimulator._handleTCPMessage, _handleSendRRData ----
\* returns what is written back (<<>> when nothing is) and the tag table
\* after the call; handles are the session handles in this.sessions
handleSendRRData(handles, table, buffer) ==
  LET send(header, cipStatus, responseData, table2) ==
        LET cipResponse == <<cipStatus>> \o responseData
            rrData == Slice(buffer, 24, 28) \o writeIntLE(N(Len(cipResponse)), 2, FALSE).v
                        \o cipResponse
        IN [reply |-> buildEIPHeader(N(SEND_RR_DATA), N(Len(rrData)), header.sessionHandle,
                                     N(0), header.senderContext, N(0)).v \o rrData,
            tags |-> table2]
      afterRead(header, read) ==
        IF read.err # "" THEN [reply |-> <<>>, tags |-> table]
        ELSE send(header, 0, read.v, table)
      afterWrite(header, write) == send(header, write.status, <<>>, write.tags)
      serve(header, cipPacket) ==
        LET cipPathSize == IF At(cipPacket, 1) < 0 THEN 0 ELSE At(cipPacket, 1)
            cipPath == Slice(cipPacket, 2, 2 + cipPathSize * 2)
            cipData == Slice(cipPacket, 2 + cipPathSize * 2, Len(cipPacket))
        IN IF header.sessionHandle \notin handles \/ Len(cipPacket) < 1
             THEN [reply |-> <<>>, tags |-> table]
           ELSE IF cipPacket[1] = READ_TAG
             THEN afterRead(header, handleReadTag(table, cipPath, cipData))
           ELSE IF cipPacket[1] = WRITE_TAG
             THEN afterWrite(header, handleWriteTag(table, cipPath, cipData))
           ELSE send(header, SERVICE_NOT_SUPPORTED, <<>>, table)
  IN IF Len(buffer) < 30 THEN [reply |-> <<>>, tags |-> table]
     ELSE serve(parseEIPHeader(buffer).v,
                Slice(buffer, 30, 30 + readIntLE(buffer, 28, 2, FALSE).v.lo))

\* ---- driver.js: EthernetIPDriver._inferDataType ----
inferDataType(value) ==
  IF value.t = "boolean" THEN Ok(CIP_BOOL)
  ELSE IF value.t = "number"
    THEN IF value.half = 0
           THEN IF Le(N(0 - 128), value) /\ Le(value, N(127)) THEN Ok(CIP_SINT)
                ELSE IF Le(N(0), value) /\ Le(value, N(255)) THEN Ok(CIP_USINT)
                ELSE IF Le(N(0 - 32768), value) /\ Le(value, N(32767)) THEN Ok(CIP_INT)
                ELSE IF Le(N(0), value) /\ Le(value, N(65535)) THEN Ok(CIP_UINT)
                ELSE Ok(CIP_DINT)
           ELSE Ok(CIP_REAL)
  ELSE IF value.t = "string" THEN Ok(CIP_STRING)
  ELSE Throw("Cannot infer data type")

\* ---- driver.js: EthernetIPDriver.readTag, writeTag after the await ----
\* readTag with the response to its request: parse it, decode the value(s)
readTagResponse(buffer, elementCount) ==
  LET values(decoded) ==
        IF elementCount = 1 THEN decoded[1]
        ELSE IF \E k \in 1..elementCount : decoded[k].err # "" THEN Throw("RangeError")
        ELSE Ok(Array([k \in 1..elementCount |-> decoded[k].v]))
      decode(parsed) ==
        LET elementSize == IF elementCount = 0 THEN 0
                           ELSE Len(parsed.v.data) \div elementCount
        IN IF parsed.err # "" THEN parsed
           \* a fractional offset: the read throws
           ELSE IF elementCount > 1 /\ Len(parsed.v.data) % elementCount # 0
             THEN Throw("RangeError")
           ELSE values([k \in 1..elementCount |->
                          decodeValue(parsed.v.dataType, parsed.v.data,
                                      (k - 1) * elementSize)])
  IN decode(parseReadTagResponse(buffer))

\* writeTag with the response to its request (parseWriteTagResponse)
writeTagResponse(buffer) ==
  LET outcome(parsed) == IF parsed.err # "" THEN parsed ELSE Ok(Undefined)
  IN outcome(parseSendRRDataResponse(buffer))

\* =========================================================================
\* EthernetIPDriver.readTags on the connection
\* =========================================================================
MaxNames == 2     \* names in one readTags() call
BatchNames == {"a", "b"}
\* nothing tells one name from the other but its place in the list: the
\* lists are drawn up to renaming, the first name being "a"
NameLists ==
  {names \in UNION {[1..n -> BatchNames] : n \in 0..MaxNames} :
     names = <<>> \/ names[1] = "a"}

\* the continuation of an await runs before any other callback: a readTags()
\* call that is not waiting for a pending request runs on
Continuing ==
  /\ batch.st = "running"
  /\ batch.req = 0 \/ reqs[batch.req].st # "pending"

\* a faulty variant of store: no try/catch around the read
store_NoCatch(b, error) ==
  IF error # ""
    THEN [b EXCEPT !.st = "rejected", !.req = 0]
    ELSE [b EXCEPT !.results = [n \in DOMAIN b.results \cup {b.names[b.i]} |->
                                  IF n = b.names[b.i] THEN [i |-> b.i, error |-> error]
                                  ELSE b.results[n]],
                   !.done = Append(@, b.names[b.i]),
                   !.i = @ + 1,
                   !.req = 0]

\* try { results[tagName] = await this.readTag(tagName) }
\* catch (error) { results[tagName] = { error: error.message } }
store(b, error) ==
  [b EXCEPT !.results = [n \in DOMAIN b.results \cup {b.names[b.i]} |->
                           IF n = b.names[b.i] THEN [i |-> b.i, error |-> error]
                           ELSE b.results[n]],
            !.done = Append(@, b.names[b.i]),
            !.i = @ + 1,
            !.req = 0]

\* readTags(tagNames) is called
ReadTags(names) ==
  /\ ~crashed
  /\ batch.st = "none"
  /\ batch' = [NoBatch EXCEPT !.st = "running", !.names = names, !.i = 1]
  /\ UNCHANGED <<conn, tags, sim, udp, app, reg>>

\* the loop reaches a name: readTag(tagName) checks the connection and sends
ReadTagsCall ==
  /\ batch.st = "running" /\ batch.req = 0 /\ batch.i <= Len(batch.names)
  /\ SendRequest("readTag")
  /\ batch' = IF last'.res = "pending" THEN [batch EXCEPT !.req = last'.id]
              ELSE IF last'.res = "threw" THEN store(batch, "TypeError")
              ELSE store(batch, LastError')
  /\ UNCHANGED <<tags, sim, udp, app, reg>>

\* the request has settled: readTag parses the response and decodes the value,
\* which can throw, or passes the rejection on
ReadTagsSettled(parses) ==
  /\ ~crashed
  /\ batch.st = "running" /\ batch.req # 0 /\ reqs[batch.req].st # "pending"
  /\ batch' = IF reqs[batch.req].st = "rejected" THEN store(batch, reqs[batch.req].err)
              ELSE IF ~parses THEN store(batch, "Invalid Read Tag response")
              ELSE store(batch, "")
  /\ UNCHANGED <<conn, tags, sim, udp, app, reg>>

\* the loop is over: return results
ReadTagsReturn ==
  /\ ~crashed
  /\ batch.st = "running" /\ batch.req = 0 /\ batch.i > Len(batch.names)
  /\ batch' = [batch EXCEPT !.st = "resolved"]
  /\ UNCHANGED <<conn, tags, sim, udp, app, reg>>

NextReadTags ==
  \/ ~Continuing /\ Connect /\ UNCHANGED <<batch, tags, sim, udp, app, reg>>
  \/ \E s \in SocketIds : ~Continuing /\ SocketConnect(s) /\ UNCHANGED <<batch, tags, sim, udp, app, reg>>
  \/ \E s \in SocketIds : \E data \in ServerMessages(s) :
       ~Continuing /\ SocketData(s, data) /\ UNCHANGED <<batch, tags, sim, udp, app, reg>>
  \/ \E s \in SocketIds : ~Continuing /\ SocketError(s) /\ UNCHANGED <<batch, tags, sim, udp, app, reg>>
  \/ \E s \in SocketIds : ~Continuing /\ SocketClose(s) /\ UNCHANGED <<batch, tags, sim, udp, app, reg>>
  \/ \E s \in SocketIds : ~Continuing /\ SocketTimeout(s) /\ UNCHANGED <<batch, tags, sim, udp, app, reg>>
  \/ \E r \in RequestIds : ~Continuing /\ RequestTimeout(r) /\ UNCHANGED <<batch, tags, sim, udp, app, reg>>
  \/ ~Continuing /\ Disconnect /\ UNCHANGED <<batch, tags, sim, udp, app, reg>>
  \/ \E d \in DisconnectIds : ~Continuing /\ DisconnectTimer(d) /\ UNCHANGED <<batch, tags, sim, udp, app, reg>>
  \/ \E names \in NameLists : ~Continuing /\ ReadTags(names)
  \/ ReadTagsCall
  \/ \E parses \in BOOLEAN : ReadTagsSettled(parses)
  \/ ReadTagsReturn

SpecReadTags == Init /\ [][NextReadTags]_vars

\* =========================================================================
\* The driver against the simulator: tags are set at the simulator, read and
\* written by the connected driver, one call at a time
\* =========================================================================
MaxElements == 3   \* elements of the array tag and of a read
TagNames == {<<84>>, <<84, 46, 85>>}    \* 'T', 'T.U'
Contexts == {<<0, 0, 0, 0, 0, 0, 0, 0>>, <<1, 2, 3, 4, 5, 6, 7, 8>>}
DINT_MAX == Number(FALSE, 32767, 65535, 0)    \* 2147483647
DINT_MIN == Number(TRUE, 32768, 0, 0)         \* -2147483648
\* the session handle the simulator gives its first session
SimHandle == N(1)

\* values with the type they are stored under
TagValues ==
  {<<Boolean(TRUE), CIP_BOOL>>, <<Boolean(FALSE), CIP_BOOL>>,
   <<N(12345), CIP_INT>>, <<N(42), CIP_DINT>>,
   <<DINT_MAX, CIP_DINT>>, <<DINT_MIN, CIP_DINT>>,
   <<String(<<72, 105>>), CIP_STRING>>,
   <<Array([k \in 1..MaxElements |-> N(10 * k)]), CIP_DINT>>}

\* a readTag or writeTag call has not returned yet: its request, or the
\* reply to it, is on the way (arg.msg, to arg.to)
InProgress == arg.fn \in {"readTag", "writeTag"} /\ ret = NotApplied

\* simulator.setTag(name, value, dataType), between the driver's calls
SimSetTag(name, value, dataType) ==
  /\ ~InProgress
  /\ tags' = setTag(tags, name, value, dataType)
  /\ arg' = [fn |-> "setTag", name |-> name, value |-> value, n |-> 0,
             to |-> "", msg |-> <<>>]
  /\ ret' = Ok(Undefined)
  /\ UNCHANGED <<conn, batch, sim, udp, reg>>

\* driver.readTag(name, n) is called: the request is built and sent
DriverReadTag(name, n, senderContext) ==
  LET call(request) ==
        /\ arg' = [fn |-> "readTag", name |-> name, value |-> Undefined, n |-> n,
                   to |-> IF request.err = "" THEN "simulator" ELSE "",
                   msg |-> request.v]
        /\ ret' = IF request.err = "" THEN NotApplied ELSE request
  IN /\ ~InProgress
     /\ call(buildReadTagRequest(SimHandle, name, n, senderContext))
     /\ UNCHANGED <<conn, batch, tags, sim, udp, reg>>

\* driver.writeTag(name, value) is called: the type is inferred, the request
\* is built and sent
DriverWriteTag(name, value, senderContext) ==
  LET call(request) ==
        /\ arg' = [fn |-> "writeTag", name |-> name, value |-> value, n |-> 1,
                   to |-> IF request.err = "" THEN "simulator" ELSE "",
                   msg |-> request.v]
        /\ ret' = IF request.err = "" THEN NotApplied ELSE request
      build(type) ==
        IF type.err # "" THEN call(type)
        ELSE call(buildWriteTagRequest(SimHandle, name, type.v, value, 1, senderContext))
  IN /\ ~InProgress
     /\ build(inferDataType(value))
     /\ UNCHANGED <<conn, batch, tags, sim, udp, reg>>

\* the simulator's socket gets the request; without a reply the request ends
\* in 'Request timeout'
SimData ==
  LET handled(served) ==
        /\ tags' = served.tags
        /\ arg' = [arg EXCEPT !.to = IF served.reply = <<>> THEN "" ELSE "driver",
                              !.msg = served.reply]
        /\ ret' = IF served.reply = <<>> THEN Throw("Request timeout") ELSE ret
  IN /\ InProgress /\ arg.to = "simulator"
     /\ handled(handleSendRRData({SimHandle}, tags, arg.msg))
     /\ UNCHANGED <<conn, batch, sim, udp, reg>>

\* the driver's socket gets the reply: sendRequest resolves and the call goes on
DriverData ==
  /\ InProgress /\ arg.to = "driver"
  /\ ret' = IF arg.fn = "readTag" THEN readTagResponse(arg.msg, arg.n)
            ELSE writeTagResponse(arg.msg)
  /\ arg' = [arg EXCEPT !.to = "", !.msg = <<>>]
  /\ UNCHANGED <<conn, batch, tags, sim, udp, reg>>

NextSim ==
  \/ \E name \in TagNames : \E tv \in TagValues : SimSetTag(name, tv[1], tv[2])
  \/ \E name \in TagNames : \E n \in 1..MaxElements : \E c \in Contexts :
       DriverReadTag(name, n, c)
  \/ \E name \in TagNames : \E tv \in TagValues : \E c \in Contexts :
       tv[1].t # "array" /\ DriverWriteTag(name, tv[1], c)
  \/ SimData
  \/ DriverData

SpecSim == Init /\ [][NextSim]_vars

\* =========================================================================
\* The simulator and its TCP clients: every 'data' and 'close' event of a
\* client socket runs its handler to the end.  A socket that closed leaves no
\* session behind, so its id stands for a new connection afterwards
\* =========================================================================
MaxLinks == 2      \* client sockets
MaxSessions == 3   \* RegisterSession requests the simulator gets
Links == 1..MaxLinks
GET_ATTRIBUTE_ALL == 1     \* 0x01
LIST_IDENTITY == 99        \* 0x0063: over TCP a command the simulator does not know
INVALID_COMMAND == 1       \* 0x01

\* ---- simulator.js: _handleRegisterSession, _handleUnregisterSession ----
\* a faulty variant of handleRegisterSession: the counter is not advanced
handleRegisterSession_SameHandle(table, next, link, header) ==
  [reply |-> <<101, 0, 4, 0, next % 256, next \div 256, 0, 0, 0, 0, 0, 0>>
               \o header.senderContext \o <<0, 0, 0, 0, 1, 0, 0, 0>>,
   sessions |-> [h \in DOMAIN table \cup {next} |-> IF h = next THEN link ELSE table[h]],
   next |-> next]

\* the session is stored and the counter advanced before the response is built
handleRegisterSession(table, next, link, header) ==
  LET answer == buildEIPHeader(N(REGISTER_SESSION), N(4), N(next), N(0),
                               header.senderContext, N(0))
  IN [reply |-> IF answer.err # "" THEN <<>> ELSE answer.v \o <<1, 0, 0, 0>>,
      sessions |-> [h \in DOMAIN table \cup {next} |->
                      IF h = next THEN link ELSE table[h]],
      next |-> next + 1]

handleUnregisterSession(table, header) ==
  [reply |-> buildEIPHeader(N(UNREGISTER_SESSION), N(0), header.sessionHandle, N(0),
                            header.senderContext, N(0)).v,
   sessions |-> [h \in {k \in DOMAIN table : N(k) # header.sessionHandle} |-> table[h]]]

\* ---- simulator.js: _sendErrorResponse ----
sendErrorResponse(header, status) ==
  buildEIPHeader(header.command, N(0), header.sessionHandle, N(status),
                 header.senderContext, N(0)).v

\* ---- simulator.js: socket.on('data') -> _handleTCPMessage ----
TcpData(link, data) ==
  LET header == parseEIPHeader(data).v
      done(reply, sessions2, next2, table2) ==
        /\ sessions' = sessions2
        /\ nextSessionHandle' = next2
        /\ tags' = table2
        /\ arg' = [fn |-> "data", socket |-> link, msg |-> data]
        /\ ret' = Ok(reply)
      registered(r) == done(r.reply, r.sessions, r.next, tags)
      unregistered(r) == done(r.reply, r.sessions, nextSessionHandle, tags)
      served(r) == done(r.reply, sessions, nextSessionHandle, r.tags)
  IN /\ IF Len(data) < HEADER_SIZE
          THEN done(<<>>, sessions, nextSessionHandle, tags)
        ELSE IF header.command = N(REGISTER_SESSION)
          THEN /\ nextSessionHandle <= MaxSessions
               /\ registered(handleRegisterSession(sessions, nextSessionHandle, link, header))
        ELSE IF header.command = N(UNREGISTER_SESSION)
          THEN unregistered(handleUnregisterSession(sessions, header))
        ELSE IF header.command = N(SEND_RR_DATA)
          THEN served(handleSendRRData({N(h) : h \in DOMAIN sessions}, tags, data))
        ELSE done(sendErrorResponse(header, INVALID_COMMAND), sessions,
                  nextSessionHandle, tags)
     /\ UNCHANGED <<conn, batch, deviceInfo, udp, reg>>

\* ---- simulator.js: socket.on('close') ----
\* a faulty variant of TcpClose: the sessions of the socket are kept
TcpClose_KeepsSessions(link) ==
  /\ sessions' = sessions
  /\ arg' = [fn |-> "close", socket |-> link, msg |-> <<>>]
  /\ ret' = Ok(<<>>)
  /\ UNCHANGED <<conn, batch, tags, nextSessionHandle, deviceInfo, udp, reg>>

TcpClose(link) ==
  /\ sessions' = [h \in {k \in DOMAIN sessions : sessions[k] # link} |-> sessions[h]]
  /\ arg' = [fn |-> "close", socket |-> link, msg |-> <<>>]
  /\ ret' = Ok(<<>>)
  /\ UNCHANGED <<conn, batch, tags, nextSessionHandle, deviceInfo, udp, reg>>

\* what the client on a socket sends: session requests, Read Tag and Write
\* Tag of tag 'T' with a path the simulator parses (segment byte 0x28) and
\* with the driver's path (0x91), other services, an unknown command and a
\* message cut short.  The client on socket l writes the value 40 + l
Requests[link \in Links] ==
  LET context == <<1, 2, 3, 4, 5, 6, 7, 8>>
      paths == {<<40, 1, 84, 0>>, <<145, 1, 84, 0>>}
      rr(h, service, path, data) == buildSendRRData(N(h), service, path, data, context).v
  IN {buildEIPHeader(N(REGISTER_SESSION), N(4), N(0), N(0), context, N(0)).v
        \o <<1, 0, 0, 0>>,
      buildEIPHeader(N(LIST_IDENTITY), N(0), N(0), N(0), context, N(0)).v,
      <<111, 0, 0>>}
       \cup {buildEIPHeader(N(UNREGISTER_SESSION), N(0), N(h), N(0), context, N(0)).v :
               h \in 1..MaxSessions}
       \cup {rr(h, READ_TAG, path, <<1, 0>>) : h \in 1..MaxSessions, path \in paths}
       \cup {rr(h, WRITE_TAG, path, <<1, 0, CIP_DINT, 40 + link, 0, 0, 0>>) :
               h \in 1..MaxSessions, path \in paths}
       \cup {rr(h, service, <<32, 1, 36, 1>>, <<>>) :
               h \in 1..MaxSessions, service \in {GET_ATTRIBUTE_ALL, 85}}

NextServer ==
  \/ \E link \in Links : \E data \in Requests[link] : TcpData(link, data)
  \/ \E link \in Links : TcpClose(link)

SpecServer == Init /\ [][NextServer]_vars

\* =========================================================================
\* Network discovery: a discoverPLCs() or discoverPLC() call, the datagrams
\* its socket receives and its timer.  An address is the four numbers of its
\* dotted form
\* =========================================================================
MaxReplies == 3    \* datagrams a discovery socket receives
EXPLICIT_PORT == 44818

\* ---- simulator.js: PLCSimulator._handleListIdentity ----
\* a faulty variant of listIdentityResponse: the serial number is written in
\* two bytes
listIdentityResponse_ShortSerial(info, port, address) ==
  LET name == [i \in 1..Len(info.productName) |-> info.productName[i] % 256]
  IN [err |-> "",
      v |-> <<99, 0, (32 + Len(name)) % 256, (32 + Len(name)) \div 256,
              0, 0, 0, 0, 0, 0, 0, 0, 0, 0, 0, 0, 0, 0, 0, 0, 0, 0, 0, 0,
              1, 0, 2, 0, port % 256, port \div 256>>
              \o address \o <<0, 0, 0, 0, 0, 0, 0, 0>>
              \o <<info.vendorId % 256, info.vendorId \div 256,
                   info.deviceType % 256, info.deviceType \div 256,
                   info.productCode % 256, info.productCode \div 256,
                   info.revision.major, info.revision.minor,
                   info.status % 256, info.status \div 256,
                   info.serialNumber.lo % 256, info.serialNumber.lo \div 256,
                   Len(name) % 256>>
              \o name \o <<info.state>>]

\* address: rinfo.address of the request, which the simulator writes into
\* the socket address of its response
listIdentityResponse(info, port, address) ==
  LET u16(x) == writeIntLE(N(x), 2, FALSE).v
      serialNumber == writeIntLE(info.serialNumber, 4, FALSE)
      productName == AsciiWrite(info.productName)
      responseHeader == buildEIPHeader(N(LIST_IDENTITY), N(34 + Len(productName)), N(0),
                                       N(0), Zeros(8), N(0))
  IN IF serialNumber.err # "" THEN serialNumber
     ELSE IF responseHeader.err # "" THEN responseHeader
     ELSE Ok(responseHeader.v \o u16(1)
               \o u16(2) \o u16(port) \o address \o Zeros(8)
               \o u16(info.vendorId) \o u16(info.deviceType) \o u16(info.productCode)
               \o <<info.revision.major, info.revision.minor>>
               \o u16(info.status) \o serialNumber.v
               \o <<Len(productName) % 256>> \o productName \o <<info.state>>)

\* ---- discovery.js: parseListIdentityResponse ----
parseListIdentityResponse(buffer) ==
  LET header == parseEIPHeader(buffer)
      u16(offset) == At(buffer, offset) + 256 * At(buffer, offset + 1)
      productNameLength == At(buffer, 56)
      named == productNameLength > 0 /\ Len(buffer) >= 57 + productNameLength
      offset == IF named THEN 57 + productNameLength ELSE 57
  IN IF Len(buffer) < 24 THEN Throw("Response too short")
     ELSE IF header.v.command # N(LIST_IDENTITY) THEN Throw("Unexpected command")
     ELSE IF header.v.status # N(0) THEN Throw("EIP Status error")
     ELSE IF Len(buffer) < 26 THEN Throw("Insufficient data for encapsulation version")
     ELSE IF Len(buffer) < 42 THEN Throw("Insufficient data for socket address")
     ELSE IF Len(buffer) < 44 THEN Throw("Insufficient data for vendor ID")
     ELSE IF Len(buffer) < 46 THEN Throw("Insufficient data for device type")
     ELSE IF Len(buffer) < 48 THEN Throw("Insufficient data for product code")
     ELSE IF Len(buffer) < 50 THEN Throw("Insufficient data for revision")
     ELSE IF Len(buffer) < 52 THEN Throw("Insufficient data for status")
     ELSE IF Len(buffer) < 56 THEN Throw("Insufficient data for serial number")
     ELSE IF Len(buffer) < 57 THEN Throw("Insufficient data for product name length")
     ELSE Ok([ipAddress |-> Slice(buffer, 30, 34),
              port |-> u16(28),
              vendorId |-> u16(42),
              deviceType |-> u16(44),
              productCode |-> u16(46),
              revision |-> [major |-> (u16(48) \div 256) % 256, minor |-> u16(48) % 256],
              status |-> u16(50),
              serialNumber |-> readIntLE(buffer, 52, 4, FALSE).v,
              productName |-> IF named THEN AsciiToString(Slice(buffer, 57, offset))
                              ELSE <<>>,
              state |-> IF Len(buffer) > offset THEN At(buffer, offset) ELSE 0,
              sinFamily |-> u16(26)])

\* the identities a simulator is constructed with: names of seven-bit
\* characters, a name with a character above 127, names of 255 and 256
\* characters, the largest serial number
Identities ==
  {[DefaultDevice EXCEPT !.productName = id[1], !.serialNumber = id[2]] :
     id \in {<<<<80, 76, 67>>, N(12345)>>,
             <<<<80, 76, 67>>, Number(FALSE, 65535, 65535, 0)>>,
             <<<<233>>, N(12345)>>,
             <<[i \in 1..255 |-> 97], N(12345)>>,
             <<[i \in 1..256 |-> 97], N(12345)>>}}

\* the datagrams a discovery socket may receive: from each of two hosts the
\* identity with either host's address or the caller's (10.0.0.9) in its
\* socket address, an identity cut short and a message of another command.
\* The simulator is the host 10.0.0.1: its response carries the address its
\* request came from
Datagrams[info \in Identities] ==
  LET hosts == {<<10, 0, 0, 1>>, <<10, 0, 0, 2>>}
      messages == {listIdentityResponse(info, EXPLICIT_PORT, a).v :
                     a \in hosts \cup {<<10, 0, 0, 9>>}}
                    \cup {Slice(listIdentityResponse(info, EXPLICIT_PORT, <<10, 0, 0, 1>>).v,
                                0, 50),
                          buildEIPHeader(N(REGISTER_SESSION), N(0), N(0), N(0), Zeros(8),
                                         N(0)).v}
  IN {[address |-> a, msg |-> m] : a \in hosts, m \in messages}

InitDiscovery ==
  /\ InitConnection
  /\ batch = NoBatch
  /\ tags = <<>>
  /\ arg = NoCall
  /\ ret = NotApplied
  /\ sessions = <<>>
  /\ nextSessionHandle = 1
  /\ deviceInfo \in Identities
  /\ discover = NoDiscover
  /\ scanner = NewScanner
  /\ db = EmptyDatabase
  /\ register = NotStarted
  /\ api = {}

\* ---- discovery.js: discoverPLCs, discoverPLC ----
\* the promise executor: the socket is created, the handlers are set, the
\* bind is started and the timer armed.  ipAddress is <<>> for discoverPLCs
Discover(fn, ipAddress) ==
  /\ discover = NoDiscover
  /\ discover' = [fn |-> fn, ipAddress |-> ipAddress, socket |-> "open", bound |-> FALSE,
                  sending |-> FALSE, discoveredDevices |-> <<>>, device |-> Null,
                  promise |-> "pending", value |-> Null, by |-> "", timer |-> TRUE,
                  threw |-> FALSE, received |-> <<>>]
  /\ UNCHANGED <<conn, batch, tags, app, sim, scanner, reg>>

\* resolve or reject of the promise: only the first call settles it
Settle(d, how, value, by) ==
  IF d.promise = "pending"
    THEN [d EXCEPT !.promise = how, !.value = value, !.by = by]
    ELSE d

\* socket.close() of a socket that is closed throws: outside a try block
\* the exception is uncaught
\* the callback of socket.bind: the request is sent
DiscoverBind ==
  /\ discover # NoDiscover /\ ~discover.threw
  /\ discover.socket = "open" /\ ~discover.bound
  /\ discover' = [discover EXCEPT !.bound = TRUE, !.sending = TRUE]
  /\ UNCHANGED <<conn, batch, tags, app, sim, scanner, reg>>

\* the callback of socket.send, with an error or without
DiscoverSent(err) ==
  /\ discover # NoDiscover /\ ~discover.threw
  /\ discover.sending
  /\ discover' =
       IF ~err THEN [discover EXCEPT !.sending = FALSE]
       ELSE IF discover.socket = "closed"
         THEN [discover EXCEPT !.sending = FALSE, !.threw = TRUE]
       ELSE Settle([discover EXCEPT !.sending = FALSE, !.socket = "closed"],
                   "rejected", Null, "send")
  /\ UNCHANGED <<conn, batch, tags, app, sim, scanner, reg>>

\* socket.on('error')
DiscoverError ==
  /\ discover # NoDiscover /\ ~discover.threw
  /\ discover.socket = "open"
  /\ discover' = Settle([discover EXCEPT !.socket = "closed"], "rejected", Null, "error")
  /\ UNCHANGED <<conn, batch, tags, app, sim, scanner, reg>>

\* a faulty variant of DiscoverMessage: discoverPLC takes a reply from any
\* address
DiscoverMessage_AnyAddress(address, msg) ==
  /\ discover # NoDiscover /\ ~discover.threw
  /\ discover.socket = "open" /\ discover.bound
  /\ Len(discover.received) < MaxReplies
  /\ discover' =
       LET parsed == parseListIdentityResponse(msg)
           heard == [discover EXCEPT !.received = @ \o <<[address |-> address, msg |-> msg]>>]
       IN IF parsed.err # "" THEN heard
          ELSE IF discover.fn = "discoverPLCs"
            THEN IF \E k \in 1..Len(discover.discoveredDevices) :
                      discover.discoveredDevices[k].ipAddress = parsed.v.ipAddress
                   THEN heard
                   ELSE [heard EXCEPT !.discoveredDevices = @ \o <<parsed.v>>]
          ELSE [heard EXCEPT !.device = parsed.v, !.socket = "closed",
                             !.promise = "resolved", !.value = parsed.v, !.by = "message"]
  /\ UNCHANGED <<conn, batch, tags, app, sim, scanner, reg>>

\* socket.on('message') with a datagram from address
DiscoverMessage(address, msg) ==
  LET heard == [discover EXCEPT !.received = @ \o <<[address |-> address, msg |-> msg]>>]
      found(device) ==
        IF device.err # "" THEN heard
        ELSE IF discover.fn = "discoverPLCs"
          THEN IF \E k \in 1..Len(discover.discoveredDevices) :
                    discover.discoveredDevices[k].ipAddress = device.v.ipAddress
                 THEN heard
                 ELSE [heard EXCEPT !.discoveredDevices = @ \o <<device.v>>]
        ELSE Settle([heard EXCEPT !.device = device.v, !.socket = "closed"],
                    "resolved", device.v, "message")
  IN /\ discover # NoDiscover /\ ~discover.threw
     /\ discover.socket = "open" /\ discover.bound
     /\ Len(discover.received) < MaxReplies
     /\ discover' = IF discover.fn = "discoverPLC" /\ address # discover.ipAddress
                      THEN heard
                      ELSE found(parseListIdentityResponse(msg))
     /\ UNCHANGED <<conn, batch, tags, app, sim, scanner, reg>>

\* the timer set at the call
DiscoverTimeout ==
  /\ discover # NoDiscover /\ ~discover.threw
  /\ discover.timer
  /\ discover' =
       LET closed == [discover EXCEPT !.timer = FALSE, !.socket = "closed"]
       IN IF discover.socket = "closed"
            THEN [discover EXCEPT !.timer = FALSE, !.threw = TRUE]
          ELSE IF discover.fn = "discoverPLCs"
            THEN Settle(closed, "resolved", discover.discoveredDevices, "timer")
          ELSE IF discover.device = Null
            THEN Settle(closed, "resolved", Null, "timer")
          ELSE closed
  /\ UNCHANGED <<conn, batch, tags, app, sim, scanner, reg>>

NextDiscovery ==
  \/ Discover("discoverPLCs", <<>>)
  \/ \E ip \in {<<10, 0, 0, 1>>, <<10, 0, 0, 2>>} : Discover("discoverPLC", ip)
  \/ DiscoverBind
  \/ \E err \in BOOLEAN : DiscoverSent(err)
  \/ DiscoverError
  \/ \E datagram \in Datagrams[deviceInfo] : DiscoverMessage(datagram.address, datagram.msg)
  \/ DiscoverTimeout

SpecDiscovery == InitDiscovery /\ [][NextDiscovery]_vars

\* ---- discovery.js: class PLCDiscovery ----
MaxStarts == 2        \* calls of start() that find the object stopped
MaxBroadcasts == 2    \* requests sent by one object

\* start()
ScannerStart ==
  /\ ~scanner.threw
  /\ ~scanner.isDiscovering
  /\ scanner.starts < MaxStarts
  /\ scanner' = [scanner EXCEPT !.isDiscovering = TRUE, !.socket = "open",
                                !.listening = FALSE, !.binding = @ + 1,
                                !.starts = @ + 1]
  /\ UNCHANGED <<conn, batch, tags, app, sim, discover, reg>>

\* _sendDiscovery: the request is sent; err: the callback of socket.send
\* has an error
sendDiscovery(s, err) ==
  IF s.socket = "null" THEN s
  ELSE [s EXCEPT !.sent = @ + 1,
                 !.emitted = IF err THEN @ \o <<[event |-> "error", address |-> <<>>,
                                                 key |-> <<>>]>>
                             ELSE @]

\* the callback of socket.bind.  this.socket is read when the callback
\* runs: after stop() it is null and setBroadcast throws
ScannerBind(err) ==
  /\ ~scanner.threw
  /\ scanner.binding > 0
  /\ scanner.sent < MaxBroadcasts
  /\ scanner' = IF scanner.socket = "null"
                  THEN [scanner EXCEPT !.binding = @ - 1, !.threw = TRUE]
                  ELSE sendDiscovery([scanner EXCEPT !.binding = @ - 1, !.listening = TRUE,
                                                     !.interval = TRUE], err)
  /\ UNCHANGED <<conn, batch, tags, app, sim, discover, reg>>

\* the callback of setInterval
ScannerInterval(err) ==
  /\ ~scanner.threw
  /\ scanner.interval
  /\ scanner.sent < MaxBroadcasts
  /\ scanner' = sendDiscovery(scanner, err)
  /\ UNCHANGED <<conn, batch, tags, app, sim, discover, reg>>

\* socket.on('message') with a datagram from address
ScannerMessage(address, msg) ==
  LET device == parseListIdentityResponse(msg)
      known == {k \in 1..Len(scanner.discoveredDevices) :
                  scanner.discoveredDevices[k].ipAddress = device.v.ipAddress}
      heard == [scanner EXCEPT !.heard = @ + 1]
  IN /\ ~scanner.threw
     /\ scanner.socket = "open" /\ scanner.listening
     /\ scanner.heard < MaxReplies
     /\ scanner' =
          IF device.err # "" THEN heard
          ELSE IF known = {}
            THEN [heard EXCEPT !.discoveredDevices = @ \o <<device.v>>,
                               !.emitted = @ \o <<[event |-> "device", address |-> address,
                                                   key |-> device.v.ipAddress]>>]
          ELSE [heard EXCEPT !.discoveredDevices =
                                [k \in DOMAIN @ |-> IF k \in known THEN device.v ELSE @[k]],
                             !.emitted = @ \o <<[event |-> "deviceUpdate",
                                                 address |-> address,
                                                 key |-> device.v.ipAddress]>>]
     /\ UNCHANGED <<conn, batch, tags, app, sim, discover, reg>>

\* socket.on('error')
ScannerError ==
  /\ ~scanner.threw
  /\ scanner.socket = "open"
  /\ Len(scanner.emitted) < MaxReplies
  /\ scanner' = [scanner EXCEPT !.emitted = @ \o <<[event |-> "error", address |-> <<>>,
                                                    key |-> <<>>]>>]
  /\ UNCHANGED <<conn, batch, tags, app, sim, discover, reg>>

\* stop() of a started object (of a stopped one it changes nothing).  A
\* socket closed while it binds may or may not run its bind callback
ScannerStop(cancelled) ==
  /\ ~scanner.threw
  /\ scanner.isDiscovering
  /\ scanner' = [scanner EXCEPT !.interval = FALSE, !.socket = "null",
                                !.listening = FALSE, !.isDiscovering = FALSE,
                                !.binding = IF cancelled THEN 0 ELSE @]
  /\ UNCHANGED <<conn, batch, tags, app, sim, discover, reg>>

NextScanner ==
  \/ ScannerStart
  \/ \E err \in BOOLEAN : ScannerBind(err)
  \/ \E err \in BOOLEAN : ScannerInterval(err)
  \/ \E datagram \in Datagrams[deviceInfo] : ScannerMessage(datagram.address, datagram.msg)
  \/ ScannerError
  \/ \E cancelled \in BOOLEAN : ScannerStop(cancelled)

SpecScanner == InitDiscovery /\ [][NextScanner]_vars

\* =========================================================================
\* tagBrowser.js: browseTags.  The call and its local variables are in arg,
\* what it returns in ret; the server answers each Find_Next request as it
\* likes
\* =========================================================================
MaxBrowse == 3     \* the largest maxTags of a call
maxConsecutiveErrors == 10

\* ---- tagBrowser.js: parseFindNextResponse ----
parseFindNextResponse(buffer) ==
  LET nameEnd(cipData) ==
        LET ends == {i \in 4..(Len(cipData) - 1) : At(cipData, i) = 0}
        IN IF ends = {} THEN Len(cipData) ELSE CHOOSE i \in ends : \A j \in ends : i <= j
      symbol(cipData) ==
        IF Len(cipData) < 4 THEN Ok(Null)
        ELSE Ok([objectClass |-> At(cipData, 0) + 256 * At(cipData, 1),
                 instanceId |-> At(cipData, 2) + 256 * At(cipData, 3),
                 name |-> AsciiToString(Slice(cipData, 4, nameEnd(cipData)))])
      find(parsed) ==
        IF parsed.err # "" THEN Throw(parsed.err)
        ELSE IF parsed.v.cipStatus # 0 THEN Ok(Null)
        ELSE symbol(parsed.v.cipData)
  IN find(parseSendRRDataResponse(buffer))

\* how a sendRequest of browseTags can settle: rejected (error status,
\* 'Request timeout', 'Not connected'), or resolved with a message: a
\* symbol named 'a' or 'b', a symbol with an empty name, CIP data shorter
\* than four bytes, CIP status 0x08 (service not supported), a header alone
BrowseAnswers ==
  LET header(length) == <<SEND_RR_DATA, 0, length, 0, 1, 0, 0, 0, 0, 0, 0, 0,
                          0, 0, 0, 0, 0, 0, 0, 0, 0, 0, 0, 0>>
      reply(cipStatus, data) ==
        header(7 + Len(data)) \o <<0, 0, 0, 0, 1 + Len(data), 0, cipStatus>> \o data
  IN {[kind |-> "rejected", buffer |-> <<>>]}
       \cup {[kind |-> "resolved", buffer |-> b] :
               b \in {reply(0, <<107, 0, 1, 0, 97, 0>>), reply(0, <<107, 0, 2, 0, 98>>),
                      reply(0, <<107, 0, 3, 0, 0, 97>>), reply(0, <<107, 0>>),
                      reply(SERVICE_NOT_SUPPORTED, <<>>), header(0)}}

\* ---- tagBrowser.js: browseTags ----
\* a faulty variant of browseLoop: the number of tags is not looked at
browseLoop_Unbounded(b) ==
  IF b.consecutiveErrors < maxConsecutiveErrors
    THEN [call |-> [b EXCEPT !.at = "request", !.sent = @ + 1, !.startingName = b.lastName],
          ret |-> NotApplied]
    ELSE [call |-> [b EXCEPT !.at = "returned"], ret |-> Ok(b.tags)]

\* the head of the while loop: the next request is sent, or the function
\* returns its tags
browseLoop(b) ==
  IF Len(b.tags) < b.maxTags /\ b.consecutiveErrors < maxConsecutiveErrors
    THEN [call |-> [b EXCEPT !.at = "request", !.sent = @ + 1, !.startingName = b.lastName],
          ret |-> NotApplied]
    ELSE [call |-> [b EXCEPT !.at = "returned"], ret |-> Ok(b.tags)]

\* the call, up to its first await
BrowseTags(maxTags) ==
  LET go(next) == arg' = next.call /\ ret' = next.ret
  IN /\ arg = NoCall
     /\ go(browseLoop([fn |-> "browseTags", maxTags |-> maxTags, tags |-> <<>>,
                       instanceId |-> 1, lastName |-> <<>>, consecutiveErrors |-> 0,
                       at |-> "called", sent |-> 0, startingName |-> <<>>]))
     /\ UNCHANGED <<conn, batch, tags, sim, udp, reg>>

\* the sendRequest of the call settles: the body of the loop up to the
\* delay, or through the catch block to the next request
BrowseAnswer(answer) ==
  LET go(next) == arg' = next.call /\ ret' = next.ret
      return(b) == [call |-> [b EXCEPT !.at = "returned"], ret |-> Ok(b.tags)]
      caught(b) ==
        IF b.consecutiveErrors + 1 >= maxConsecutiveErrors
          THEN return([b EXCEPT !.consecutiveErrors = @ + 1])
        ELSE IF b.instanceId + 1 > b.maxTags
          THEN return([b EXCEPT !.consecutiveErrors = @ + 1, !.instanceId = @ + 1])
        ELSE browseLoop([b EXCEPT !.consecutiveErrors = @ + 1, !.instanceId = @ + 1])
      found(b, symbol) ==
        IF symbol = Null THEN return(b)
        ELSE IF symbol.name # <<>>
          THEN [call |-> [b EXCEPT !.tags = @ \o <<[name |-> symbol.name,
                                                    instanceId |-> symbol.instanceId,
                                                    objectClass |-> symbol.objectClass]>>,
                                   !.lastName = symbol.name,
                                   !.consecutiveErrors = 0,
                                   !.at = "delay"],
                ret |-> NotApplied]
        ELSE [call |-> [b EXCEPT !.consecutiveErrors = @ + 1, !.at = "delay"],
              ret |-> NotApplied]
      body(b, result) ==
        IF result.err # ""
          THEN caught(b)
          ELSE found(b, result.v)
  IN /\ arg.fn = "browseTags" /\ arg.at = "request"
     /\ go(body(arg, IF answer.kind = "rejected" THEN Throw("rejected")
                     ELSE parseFindNextResponse(answer.buffer)))
     /\ UNCHANGED <<conn, batch, tags, sim, udp, reg>>

\* the 10 ms delay at the end of the loop body has passed
BrowseDelay ==
  LET go(next) == arg' = next.call /\ ret' = next.ret
  IN /\ arg.fn = "browseTags" /\ arg.at = "delay"
     /\ go(browseLoop(arg))
     /\ UNCHANGED <<conn, batch, tags, sim, udp, reg>>

NextBrowse ==
  \/ \E maxTags \in 0..MaxBrowse : BrowseTags(maxTags)
  \/ \E answer \in BrowseAnswers : BrowseAnswer(answer)
  \/ BrowseDelay

\* every request settles and every delay passes
SpecBrowse ==
  /\ Init /\ [][NextBrowse]_vars
  /\ WF_vars(\E answer \in BrowseAnswers : BrowseAnswer(answer))
  /\ WF_vars(BrowseDelay)

\* =========================================================================
\* register.js: a timer reads up to batchSize rows of QUEUE each round and
\* starts processJob() for every row; rounds overlap when posts are slow
\* =========================================================================
MaxJobs == 3     \* rows QUEUE ever holds
MaxRounds == 2   \* rounds of the timer
batchSize == 2   \* config.register.batchSize

\* the text RegisterTagData stores, the JSON text of null, and a text that
\* is not JSON
TagDataText == "{\"tagCode\":\"A\",\"date\":\"D\",\"value\":1}"
JobTexts == {TagDataText, "null", "{"}

\* JSON.parse(text) on the job texts
JSONparse(text) ==
  IF text = TagDataText
    THEN Ok([t |-> "object", tagCode |-> "A", date |-> "D", value |-> 1])
  ELSE IF text = "null" THEN Ok(Null)
  ELSE Throw("SyntaxError")

\* what the table can hold when register.js starts: ids 1..n in use
Databases ==
  UNION {{[QUEUE |-> {[id |-> i, job |-> texts[i]] : i \in 1..n}, seq |-> n] :
            texts \in [1..n -> JobTexts]} : n \in 0..MaxJobs}

InitRegister ==
  /\ InitConnection
  /\ batch = NoBatch
  /\ tags = <<>>
  /\ arg = NoCall
  /\ ret = NotApplied
  /\ sessions = <<>>
  /\ nextSessionHandle = 1
  /\ deviceInfo = DefaultDevice
  /\ discover = NoDiscover
  /\ scanner = NewScanner
  /\ db \in Databases
  /\ register = NotStarted
  /\ api = {}

\* RegisterTagData of the polling process: INSERT INTO QUEUE of one tagData;
\* AUTOINCREMENT gives an id never used before (a failed INSERT changes
\* nothing)
RegisterTagData ==
  /\ db.seq < MaxJobs
  /\ db' = [QUEUE |-> db.QUEUE \cup {[id |-> db.seq + 1, job |-> TagDataText]},
            seq |-> db.seq + 1]
  /\ UNCHANGED <<conn, batch, tags, app, sim, udp, register, api>>

\* processJob(row, db) up to its first await: the post of the tagData, or
\* the DELETE of the catch block when JSON.parse or the reading of
\* tagData.tagCode threw
processJob(round, row) ==
  LET start(tagData) ==
        IF tagData.err # "" THEN "delete"
        ELSE IF tagData.v = Null THEN "delete"
        ELSE "post"
  IN [round |-> round, id |-> row.id, job |-> row.job, at |-> start(JSONparse(row.job))]

\* the timer fires: processQueue() hands its SELECT to the database
Tick ==
  /\ register.rounds < MaxRounds
  /\ register' = [rounds |-> register.rounds + 1,
                  jobs |-> register.jobs \cup
                    {[round |-> register.rounds + 1, id |-> 0, job |-> "", at |-> "select"]}]
  /\ UNCHANGED <<conn, batch, tags, app, sim, udp, db, api>>

\* the SELECT ran and its callback is called: with an error the round ends;
\* else with no more than batchSize of the rows (LIMIT without ORDER BY
\* names no order), and processJob starts for each of them
Rows(err, rows) ==
  \E s \in register.jobs :
    /\ s.at = "select"
    /\ IF err
         THEN register' = [register EXCEPT !.jobs = @ \ {s}]
         ELSE /\ rows \subseteq db.QUEUE
              /\ Cardinality(rows) <= batchSize
              /\ Cardinality(rows) = batchSize \/ rows = db.QUEUE
              /\ register' = [register EXCEPT
                               !.jobs = (@ \ {s}) \cup {processJob(s.round, row) : row \in rows}]
    /\ UNCHANGED <<conn, batch, tags, app, sim, udp, db, api>>

\* a faulty variant of PostSettles: the row is deleted after a failed post too
PostSettles_AlwaysRemoves(j, ok) ==
  /\ j \in register.jobs /\ j.at = "post"
  /\ api' = IF ok THEN api \cup {j.id} ELSE api
  /\ register' = [register EXCEPT !.jobs = (@ \ {j}) \cup {[j EXCEPT !.at = "delete"]}]
  /\ UNCHANGED <<conn, batch, tags, app, sim, udp, db>>

\* SupervisoryAPI.tagChanged(tagData) settles: after a success the DELETE of
\* the row is handed to the database, after a failure the job ends and the
\* row is left alone
PostSettles(j, ok) ==
  /\ j \in register.jobs /\ j.at = "post"
  /\ api' = IF ok THEN api \cup {j.id} ELSE api
  /\ register' = [register EXCEPT
                   !.jobs = (@ \ {j}) \cup {[j EXCEPT !.at = IF ok THEN "delete" ELSE "failed"]}]
  /\ UNCHANGED <<conn, batch, tags, app, sim, udp, db>>

\* removeJobFromQueue(db, id): DELETE FROM QUEUE WHERE id=? ran; with an
\* error nothing was deleted, and both callers' promises swallow it
Removed(j, err) ==
  /\ j \in register.jobs /\ j.at = "delete"
  /\ db' = IF err THEN db ELSE [db EXCEPT !.QUEUE = {row \in @ : row.id # j.id}]
  /\ register' = [register EXCEPT
                   !.jobs = (@ \ {j}) \cup {[j EXCEPT !.at = IF err THEN "kept" ELSE "removed"]}]
  /\ UNCHANGED <<conn, batch, tags, app, sim, udp, api>>

NextRegister ==
  \/ RegisterTagData
  \/ Tick
  \/ \E err \in BOOLEAN, rows \in SUBSET db.QUEUE : Rows(err, rows)
  \/ \E j \in register.jobs, ok \in BOOLEAN : PostSettles(j, ok)
  \/ \E j \in register.jobs, err \in BOOLEAN : Removed(j, err)

SpecRegister == InitRegister /\ [][NextRegister]_vars

\* =========================================================================
\* The functions on their own: one call is drawn, then applied; a result
\* that is a buffer can be handed to the function that reads it back
\* =========================================================================
MaxBits == 32      \* numbers are drawn around the powers of two up to 2^MaxBits
MaxNameLen == 3    \* short tag names have up to MaxNameLen characters

Calls ==
  LET Pow(k) == IF k >= 16 THEN [hi |-> 2^(k - 16), lo |-> 0] ELSE [hi |-> 0, lo |-> 2^k]
      Around(k, d) ==
        IF d = 1 THEN [Pow(k) EXCEPT !.lo = @ + 1]
        ELSE IF d = 0 THEN Pow(k)
        ELSE IF Pow(k).lo > 0 THEN [Pow(k) EXCEPT !.lo = @ - 1]
        ELSE [hi |-> Pow(k).hi - 1, lo |-> 65535]
      Numbers ==
        {x \in {Number(neg, Around(k, d).hi, Around(k, d).lo, half) :
                  neg \in BOOLEAN, k \in 0..MaxBits, d \in {0 - 1, 0, 1}, half \in {0, 1}} :
           ~(x.neg /\ x.hi = 0 /\ x.lo = 0 /\ x.half = 0)}
      Long(n) == [i \in 1..n |-> 97]
      Strings == {<<>>, <<72, 105>>, <<0, 127>>, <<233>>, <<8364>>, Long(255), Long(256)}
      Short == UNION {[1..n -> {97, 98, DOT}] : n \in 1..MaxNameLen}
      Names == Short \cup {Long(255), Long(256), Long(253) \o <<DOT>> \o Long(253),
                           Long(253) \o <<DOT>> \o Long(254)}
      Values == Numbers \cup {Boolean(b) : b \in BOOLEAN} \cup {String(s) : s \in Strings}
                  \cup {Undefined}
      Typed == ({CIP_BOOL} \X {Boolean(b) : b \in BOOLEAN})
                 \cup ({CIP_STRING} \X {String(s) : s \in Strings})
                 \cup ({CIP_SINT, CIP_INT, CIP_DINT, CIP_USINT, CIP_UINT, CIP_UDINT,
                        CIP_REAL, CIP_LREAL} \X Numbers)
      Words16 == {N(0), N(111), N(65535), N(65536)}
      Words32 == {N(0), Number(FALSE, 32768, 1, 0), Number(FALSE, 65535, 65535, 0),
                  Number(FALSE, 65536, 0, 0)}
      \* messages to parse: a header, the interface handle, the CIP length, the
      \* CIP status and a payload, whole or cut short
      Message(c, s, l, cs, data) ==
        <<c, 0, 0, 0, 1, 0, 0, 0, s, 0, 0, 0, 1, 2, 3, 4, 5, 6, 7, 8, 0, 0, 0, 0,
          0, 0, 0, 0, l, 0, cs>> \o data
      Messages ==
        {Message(c, s, l, cs, data) :
           c \in {SEND_RR_DATA, REGISTER_SESSION}, s \in {0, 100}, l \in {0, 1, 3, 5},
           cs \in {0, 8, 22},
           data \in {<<>>, <<196, 1>>, <<196, 1, 0, 42>>, <<196, 1, 0, 42, 0, 0, 0>>}}
      Buffers == {Slice(m, 0, k) : m \in Messages, k \in {0, 23, 24, 29, 30, 31, 40}}
      \* Write Tag requests for the tag 'T': tables without it and with it,
      \* paths the simulator parses and does not parse, data of every type,
      \* whole, cut short, of an unknown type, arrays with elements of a
      \* whole and of a fractional number of bytes
      Held == setTag(<<>>, <<85>>, Boolean(TRUE), CIP_BOOL)
      Tables == {<<>>, Held, setTag(Held, <<84>>, N(5), CIP_DINT)}
      Written ==
        {<<c, 0, t>> \o Slice(<<7, 1, 128, 63, 0, 0, 0, 0, 0>>, 0, n) :
           c \in 0..3, n \in {0, 1, 2, 3, 4, 6, 8, 9},
           t \in {CIP_BOOL, CIP_SINT, CIP_INT, CIP_DINT, CIP_USINT, CIP_UINT, CIP_UDINT,
                  CIP_REAL, CIP_LREAL, CIP_STRING, 99}}
          \cup {<<>>, <<1>>, <<1, 0>>}
  IN {[fn |-> "inferDataType", value |-> v] : v \in Values}
       \cup {[fn |-> "parseSendRRDataResponse", buffer |-> b] : b \in Buffers}
       \cup {[fn |-> "handleWriteTag", table |-> t, cipPath |-> p, cipData |-> d] :
               t \in Tables, p \in {<<40, 1, 84, 0>>, <<145, 1, 84, 0>>, <<>>}, d \in Written}
       \cup {[fn |-> f, tagName |-> n] : f \in {"buildPath", "buildReadTagRequest"}, n \in Names}
       \cup {[fn |-> "encodeValue", dataType |-> tv[1], value |-> tv[2]] : tv \in Typed}
       \cup {[fn |-> "buildEIPHeader", command |-> c, length |-> l, sessionHandle |-> h,
              status |-> s, senderContext |-> x, options |-> o] :
               c \in Words16, l \in Words16, h \in Words32, s \in Words32, x \in Contexts,
               o \in Words32}

InitFn ==
  /\ InitConnection
  /\ batch = NoBatch
  /\ tags = <<>>
  /\ arg \in Calls
  /\ ret = NotApplied
  /\ sessions = <<>>
  /\ nextSessionHandle = 1
  /\ deviceInfo = DefaultDevice
  /\ discover = NoDiscover
  /\ scanner = NewScanner
  /\ db = EmptyDatabase
  /\ register = NotStarted
  /\ api = {}

\* driver._inferDataType(value)
Infer ==
  /\ arg.fn = "inferDataType" /\ ret = NotApplied
  /\ ret' = inferDataType(arg.value)
  /\ UNCHANGED <<conn, batch, tags, sim, udp, arg, reg>>

\* buildPath(tagName)
BuildPath ==
  /\ arg.fn = "buildPath" /\ ret = NotApplied
  /\ ret' = buildPath(arg.tagName)
  /\ UNCHANGED <<conn, batch, tags, sim, udp, arg, reg>>

\* parsePath(path) of the path built
ParsePath ==
  /\ arg.fn = "buildPath" /\ ret # NotApplied /\ ret.err = ""
  /\ arg' = [fn |-> "parsePath", tagName |-> arg.tagName, buffer |-> ret.v]
  /\ ret' = LET parsed == parsePath(ret.v, 0)
            IN IF parsed.err # "" THEN Throw(parsed.err) ELSE Ok(parsed)
  /\ UNCHANGED <<conn, batch, tags, sim, udp, reg>>

\* buildReadTagRequest(sessionHandle, tagName)
BuildRequest(senderContext) ==
  /\ arg.fn = "buildReadTagRequest" /\ ret = NotApplied
  /\ ret' = buildReadTagRequest(SimHandle, arg.tagName, 1, senderContext)
  /\ UNCHANGED <<conn, batch, tags, sim, udp, arg, reg>>

\* encodeValue(dataType, value)
Encode ==
  /\ arg.fn = "encodeValue" /\ ret = NotApplied
  /\ ret' = encodeValue(arg.dataType, arg.value)
  /\ UNCHANGED <<conn, batch, tags, sim, udp, arg, reg>>

\* decodeValue(dataType, buffer) of the buffer encoded
Decode ==
  /\ arg.fn = "encodeValue" /\ ret # NotApplied /\ ret.err = ""
  /\ arg' = [fn |-> "decodeValue", dataType |-> arg.dataType, value |-> arg.value,
             buffer |-> ret.v]
  /\ ret' = decodeValue(arg.dataType, ret.v, 0)
  /\ UNCHANGED <<conn, batch, tags, sim, udp, reg>>

\* buildEIPHeader(command, length, sessionHandle, status, senderContext, options)
BuildHeader ==
  /\ arg.fn = "buildEIPHeader" /\ ret = NotApplied
  /\ ret' = buildEIPHeader(arg.command, arg.length, arg.sessionHandle, arg.status,
                           arg.senderContext, arg.options)
  /\ UNCHANGED <<conn, batch, tags, sim, udp, arg, reg>>

\* parseEIPHeader(header) of the header built
ParseHeader ==
  /\ arg.fn = "buildEIPHeader" /\ ret # NotApplied /\ ret.err = ""
  /\ arg' = [arg EXCEPT !.fn = "parseEIPHeader"]
  /\ ret' = parseEIPHeader(ret.v)
  /\ UNCHANGED <<conn, batch, tags, sim, udp, reg>>

\* parseSendRRDataResponse(buffer)
ParseResponse ==
  /\ arg.fn = "parseSendRRDataResponse" /\ ret = NotApplied
  /\ ret' = parseSendRRDataResponse(arg.buffer)
  /\ UNCHANGED <<conn, batch, tags, sim, udp, arg, reg>>

\* simulator._handleWriteTag(cipPath, cipData) on a tag table
WriteTag ==
  /\ arg.fn = "handleWriteTag" /\ ret = NotApplied
  /\ ret' = Ok(handleWriteTag(arg.table, arg.cipPath, arg.cipData))
  /\ UNCHANGED <<conn, batch, tags, sim, udp, arg, reg>>

NextFn ==
  \/ Infer
  \/ BuildPath
  \/ ParsePath
  \/ \E c \in Contexts : BuildRequest(c)
  \/ Encode
  \/ Decode
  \/ BuildHeader
  \/ ParseHeader
  \/ ParseResponse
  \/ WriteTag

SpecFn == InitFn /\ [][NextFn]_vars

\* the values of a CIP type: the integers of its width, every number for the
\* two floating-point types, the strings of up to 255 seven-bit characters
InRange(dataType, value) ==
  LET int(n, signed) ==
        /\ value.t = "number" /\ value.half = 0
        /\ Le(IntMin(n, signed), value) /\ Le(value, IntMax(n, signed))
  IN CASE dataType = CIP_BOOL -> value.t = "boolean"
       [] dataType = CIP_SINT -> int(1, TRUE)
       [] dataType = CIP_INT -> int(2, TRUE)
       [] dataType = CIP_DINT -> int(4, TRUE)
       [] dataType = CIP_USINT -> int(1, FALSE)
       [] dataType = CIP_UINT -> int(2, FALSE)
       [] dataType = CIP_UDINT -> int(4, FALSE)
       [] dataType \in {CIP_REAL, CIP_LREAL} -> value.t = "number"
       [] dataType = CIP_STRING ->
            /\ value.t = "string" /\ Len(value.s) <= 255
            /\ \A i \in 1..Len(value.s) : value.s[i] < 128
       [] OTHER -> FALSE

\* C11: a request that was in flight when disconnect() was called is settled
\* once that disconnect() has resolved: its promise is no longer pending, it
\* does not hold the pending-response slot and its timer is not armed
C11_DisconnectCancelsInFlight ==
  \A d \in DisconnectIds :
    discs[d].st = "resolved" =>
      \A r \in discs[d].inflight :
        /\ reqs[r].st # "pending"
        /\ ~reqs[r].timer
        /\ pendingResponse # r

\* C15: readTags(names) never rejects; when it resolves every name has been
\* read, in the order given, and the result holds one entry per distinct
\* name: what the last read of that name ended in, a value or an error marker
C15_ReadTagsNeverRejects ==
  /\ batch.st # "rejected"
  /\ batch.st = "resolved" =>
       /\ batch.done = batch.names
       /\ DOMAIN batch.results = {batch.names[k] : k \in 1..Len(batch.names)}
       /\ \A n \in DOMAIN batch.results :
            /\ batch.names[batch.results[n].i] = n
            /\ \A k \in 1..Len(batch.names) : batch.names[k] = n => k <= batch.results[n].i

\* a readTags() call has resolved after one name failed with an error of the
\* connection and a later name was read
C15_Witness ==
  /\ batch.st = "resolved"
  /\ \E m, n \in DOMAIN batch.results :
       /\ batch.results[m].i < batch.results[n].i
       /\ batch.results[m].error \in {"Request timeout", "Invalid session handle"}
       /\ batch.results[n].error = ""

\* C12: readTag(name) of a BOOL, INT, DINT or STRING tag of the simulator
\* returns the value the tag table holds for it, the value stored last by
\* setTag or by a writeTag that resolved
C12_ReadTagReturnsStored ==
  /\ arg.fn = "readTag" /\ arg.n = 1 /\ ret # NotApplied
  /\ arg.name \in DOMAIN tags
  /\ tags[arg.name].value.t # "array"
  /\ tags[arg.name].dataType \in {CIP_BOOL, CIP_INT, CIP_DINT, CIP_STRING}
  => ret = Ok(tags[arg.name].value)

\* C13: readTag of a name that is not in the simulator's tag table fails
\* with the CIP status error 'object does not exist' and leaves the tag
\* table as it was
C13_UnknownTagIsCipError ==
  [][InProgress /\ arg.fn = "readTag" /\ arg.name \notin DOMAIN tags
       => /\ tags' = tags
          /\ ret' # NotApplied =>
               ret'.err \in {CipStatusError(OBJECT_DOES_NOT_EXIST),
                             "CIP error reading tag: 0x16"}]_vars

\* C14: readTag(name, n) of a DINT array tag of L elements, 1 < n <= L,
\* returns the array of the tag's first n elements in order
C14_ArrayReadReturnsFirstN ==
  /\ arg.fn = "readTag" /\ arg.n > 1 /\ ret # NotApplied
  /\ arg.name \in DOMAIN tags
  /\ tags[arg.name].value.t = "array"
  /\ tags[arg.name].dataType = CIP_DINT
  /\ arg.n <= Len(tags[arg.name].value.a)
  => ret = Ok(Array(Slice(tags[arg.name].value.a, 0, arg.n)))

\* C16: for an integral number the inferred type is the first of SINT, USINT,
\* INT, UINT, DINT whose range contains it, so the inferred type can
\* represent it; a boolean infers BOOL, a non-integral number REAL, a string
\* STRING
C16_InferredTypeFits ==
  arg.fn = "inferDataType" /\ ret # NotApplied =>
    LET v == arg.value
        order == <<CIP_SINT, CIP_USINT, CIP_INT, CIP_UINT, CIP_DINT>>
        bytes == <<1, 1, 2, 2, 4>>
        fits(k) == /\ Le(IntMin(bytes[k], k \in {1, 3, 5}), v)
                   /\ Le(v, IntMax(bytes[k], k \in {1, 3, 5}))
    IN CASE v.t = "boolean" -> ret = Ok(CIP_BOOL)
         [] v.t = "string" -> ret = Ok(CIP_STRING)
         [] v.t = "number" /\ v.half # 0 -> ret = Ok(CIP_REAL)
         [] v.t = "number" /\ v.half = 0 ->
              \E k \in 1..5 : /\ fits(k)
                              /\ \A j \in 1..(k - 1) : ~fits(j)
                              /\ ret = Ok(order[k])
         [] OTHER -> TRUE

\* C17: parsing the path built for a tag name of N dot-separated components
\* yields exactly N symbolic segments, in order, each with its component as
\* name, and the simulator recovers the tag name from the path
C17_PathRoundTrip ==
  arg.fn = "parsePath" =>
    LET parts == Split(arg.tagName, DOT)
    IN /\ ret.err = ""
       /\ ret.v.segments = [k \in 1..Len(parts) |-> [type |-> "symbolic", name |-> parts[k]]]
       /\ parseTagNameFromPath(arg.buffer) = String(arg.tagName)

C19_CodecRoundTripAsClaimed ==
  arg.fn = "decodeValue" /\ InRange(arg.dataType, arg.value) => ret = Ok(arg.value)

\* C19 (amended): decodeValue(T, encodeValue(T, v)) = v for every value in
\* the range of T, where for REAL the value is a single-precision number (at
\* most 24 significant bits); any other number comes back rounded to single
\* precision
C19_CodecRoundTrip ==
  arg.fn = "decodeValue" /\ InRange(arg.dataType, arg.value) =>
    LET v == arg.value
        m == Bits(v.hi, 20) \o Bits(v.lo, 16) \o <<v.half>>
        ones == {i \in 1..Len(m) : m[i] = 1}
        single == \A i, j \in ones : j - i < 24
    IN IF arg.dataType = CIP_REAL /\ ~single
         THEN ret.err = "" /\ ret.v # v
         ELSE ret = Ok(v)

\* negative and fractional values have come back through REAL and through
\* DINT
C19_Witness ==
  /\ arg.fn = "decodeValue" /\ ret = Ok(arg.value)
  /\ arg.value.t = "number" /\ arg.value.neg
  /\ \/ arg.dataType = CIP_REAL /\ arg.value.half = 1 /\ arg.value.hi > 0
     \/ arg.dataType = CIP_DINT /\ arg.value.hi = 32768

\* C20: for command and length within 16 bits, session handle, status and
\* options within 32 bits and an 8-byte sender context, the header built is
\* 24 bytes long and parsing it gives every field back
C20_HeaderRoundTrip ==
  LET u16(x) == Le(N(0), x) /\ Le(x, N(65535)) /\ x.half = 0
      u32(x) == Le(N(0), x) /\ Le(x, Number(FALSE, 65535, 65535, 0)) /\ x.half = 0
      inRange == /\ u16(arg.command) /\ u16(arg.length)
                 /\ u32(arg.sessionHandle) /\ u32(arg.status) /\ u32(arg.options)
                 /\ Len(arg.senderContext) = 8
  IN /\ arg.fn = "buildEIPHeader" /\ ret # NotApplied /\ inRange
       => ret.err = "" /\ Len(ret.v) = 24
     /\ arg.fn = "parseEIPHeader" /\ inRange
       => ret = Ok([command |-> arg.command, length |-> arg.length,
                    sessionHandle |-> arg.sessionHandle, status |-> arg.status,
                    senderContext |-> arg.senderContext, options |-> arg.options])

\* a header with the largest session handle, distinct context bytes and
\* non-zero options has been built and parsed
C20_Witness ==
  /\ arg.fn = "parseEIPHeader" /\ ret.err = ""
  /\ arg.command = N(111)
  /\ arg.sessionHandle = Number(FALSE, 65535, 65535, 0)
  /\ arg.senderContext = <<1, 2, 3, 4, 5, 6, 7, 8>>
  /\ arg.options = Number(FALSE, 32768, 1, 0)
  /\ ret.v.options = arg.options

\* C21: parseSendRRDataResponse fails exactly when the header command is not
\* SendRRData, or the header status is nonzero (the error carries the status),
\* or the CIP status byte is nonzero; otherwise it returns exactly the
\* cipLength - 1 bytes that follow the status byte
C21_ParseResponseAsClaimed ==
  arg.fn = "parseSendRRDataResponse" /\ ret # NotApplied =>
    LET b == arg.buffer
        commandBad == At(b, 0) # SEND_RR_DATA \/ At(b, 1) # 0
        statusBad == \E i \in 8..11 : At(b, i) > 0
        cipLength == At(b, 28) + 256 * At(b, 29)
    IN IF commandBad \/ statusBad \/ At(b, 30) > 0
         THEN ret.err # ""
         ELSE /\ ret.err = ""
              /\ Len(ret.v.cipData) = cipLength - 1
              /\ \A k \in 1..(cipLength - 1) : ret.v.cipData[k] = b[31 + k]

\* C21 (amended): parseSendRRDataResponse fails exactly when the message is
\* shorter than 31 bytes (it ends before the byte after the header, the
\* interface handle and the CIP length), or the command is not SendRRData, or
\* the header status is nonzero (the error carries the status), or the CIP
\* status byte is nonzero; otherwise it returns the bytes that follow the
\* status byte: cipLength - 1 of them, or as many as the message holds when it
\* holds fewer
C21_ParseResponse ==
  arg.fn = "parseSendRRDataResponse" /\ ret # NotApplied =>
    LET b == arg.buffer
        commandBad == At(b, 0) # SEND_RR_DATA \/ At(b, 1) # 0
        statusBad == \E i \in 8..11 : At(b, i) > 0
        cipLength == At(b, 28) + 256 * At(b, 29)
        held == Len(b) - 31
        n == IF cipLength - 1 < held THEN cipLength - 1 ELSE held
    IN IF Len(b) < 31 \/ commandBad \/ statusBad \/ At(b, 30) > 0
         THEN /\ ret.err # ""
              /\ Len(b) >= 24 /\ ~commandBad /\ statusBad
                   => ret.statusCode = Number(FALSE, At(b, 10) + 256 * At(b, 11),
                                              At(b, 8) + 256 * At(b, 9), 0)
         ELSE /\ ret.err = ""
              /\ ret.v.cipData = [k \in 1..n |-> b[31 + k]]

\* a message that holds fewer payload bytes than its CIP length announces has
\* been parsed
C21_Witness ==
  /\ arg.fn = "parseSendRRDataResponse" /\ ret # NotApplied
  /\ ret.err = "" /\ ret.v.cipData = <<196, 1>>
  /\ At(arg.buffer, 28) = 5

\* C22: for a SendRRData request on a registered session whose CIP service is
\* neither Read Tag nor Write Tag the simulator writes back one SendRRData
\* reply with CIP status 0x08, the request's session handle and sender
\* context and no data, and the tag table stays as it was
C22_UnknownServiceNotSupported ==
  [][LET m == arg'.msg
     IN /\ arg'.fn = "data" /\ Len(m) > 30
        /\ At(m, 0) = SEND_RR_DATA /\ At(m, 4) \in DOMAIN sessions
        /\ At(m, 30) \notin {READ_TAG, WRITE_TAG}
        => /\ ret'.v = <<SEND_RR_DATA, 0, 7, 0>> \o Slice(m, 4, 8) \o <<0, 0, 0, 0>>
                         \o Slice(m, 12, 20) \o <<0, 0, 0, 0>> \o Slice(m, 24, 28)
                         \o <<1, 0, SERVICE_NOT_SUPPORTED>>
           /\ tags' = tags]_vars

\* a Get_Attribute_All request has been answered with 0x08 while the tag
\* table held a tag
C22_Witness ==
  /\ arg.fn = "data" /\ At(arg.msg, 30) = GET_ATTRIBUTE_ALL
  /\ At(ret.v, 30) = SERVICE_NOT_SUPPORTED
  /\ tags # <<>>

\* C23: the session handles the simulator issues are strictly increasing in
\* issue order and never reused: every RegisterSession request, on whichever
\* socket, is answered with the value of a counter that starts at 1, never
\* decreases and is advanced by the request, so the handle is not 0 and is
\* above every handle issued before, also after sessions were unregistered
\* or their socket closed
C23_HandlesIncrease ==
  [][/\ nextSessionHandle' >= nextSessionHandle
     /\ nextSessionHandle > 0
     /\ \A h \in DOMAIN sessions : 0 < h /\ h < nextSessionHandle
     /\ arg'.fn = "data" /\ At(arg'.msg, 0) = REGISTER_SESSION /\ Len(arg'.msg) >= 24
        => /\ Len(ret'.v) = 28
           /\ Slice(ret'.v, 0, 12) =
                <<REGISTER_SESSION, 0, 4, 0, nextSessionHandle, 0, 0, 0, 0, 0, 0, 0>>
           /\ nextSessionHandle' = nextSessionHandle + 1
           /\ sessions'[nextSessionHandle] = arg'.socket]_vars

\* a third handle has been issued after the sessions of the first two were
\* ended, one by UnregisterSession and one by the close of its socket
C23_Witness ==
  /\ arg.fn = "data" /\ At(arg.msg, 0) = REGISTER_SESSION
  /\ At(ret.v, 4) = 3
  /\ DOMAIN sessions = {3}

\* C24: the tag table is one for all client sockets: a Write Tag the
\* simulator accepts stores its value whichever socket it came on and
\* whoever wrote the tag before, nothing else changes the table, and a Read
\* Tag is answered with the stored value whichever socket it came on
C24_TagTableShared ==
  [][LET m == arg'.msg
         T == <<84>>
         parsed == At(m, 32) = 40
         accepted == /\ arg'.fn = "data" /\ Len(ret'.v) > 30 /\ At(m, 0) = SEND_RR_DATA
                     /\ At(m, 30) = WRITE_TAG /\ At(ret'.v, 30) = 0
         read == /\ arg'.fn = "data" /\ Len(ret'.v) > 30 /\ At(m, 0) = SEND_RR_DATA
                 /\ At(m, 30) = READ_TAG /\ parsed /\ T \in DOMAIN tags
     IN /\ accepted => /\ T \in DOMAIN tags'
                       /\ tags'[T] = [value |-> N(40 + arg'.socket), dataType |-> CIP_DINT]
        /\ ~accepted => tags' = tags
        /\ read => Slice(ret'.v, 30, Len(ret'.v)) =
                     <<0, CIP_DINT, 1, 0, tags[T].value.lo, 0, 0, 0>>]_vars

\* the client on socket 1 has read the value that the client on socket 2
\* wrote
C24_Witness ==
  /\ arg.fn = "data" /\ arg.socket = 1
  /\ At(arg.msg, 30) = READ_TAG
  /\ Slice(ret.v, 30, Len(ret.v)) = <<0, CIP_DINT, 1, 0, 42, 0, 0, 0>>


\* C25 (as claimed): discoverPLCs is resolved by its timer only, with the
\* parsable replies received until then, one entry per source address (the
\* first reply of each), in order of first arrival.
C25_OnePerSourceAddress ==
  discover.fn = "discoverPLCs" /\ discover.promise = "resolved" =>
    LET r == discover.received
        parsed(i) == parseListIdentityResponse(r[i].msg)
        first(i) == /\ parsed(i).err = ""
                    /\ \A j \in 1..(i - 1) :
                         parsed(j).err # "" \/ r[j].address # r[i].address
        kept[k \in 0..Len(r)] ==
          IF k = 0 THEN <<>>
          ELSE IF first(k) THEN kept[k - 1] \o <<parsed(k).v>>
          ELSE kept[k - 1]
    IN /\ discover.by = "timer"
       /\ discover.value = kept[Len(r)]

\* C26: discoverPLC(ip) is resolved with the parsed identity in the step
\* that receives the first parsable reply from ip; it is resolved with null
\* by its timer and by nothing else when no such reply came; replies from
\* other addresses and unparsable replies leave it pending; once settled
\* its outcome never changes.
C26_DiscoverPLC ==
  [][discover'.fn = "discoverPLC" =>
       LET d == discover'
           r == d.received
           valid(i) == /\ r[i].address = d.ipAddress
                       /\ parseListIdentityResponse(r[i].msg).err = ""
       IN /\ \A i \in 1..Len(r) :
               valid(i) => /\ i = Len(r)
                           /\ d.promise = "resolved" /\ d.by = "message"
                           /\ d.value = parseListIdentityResponse(r[i].msg).v
          /\ d.by = "message" => Len(r) > 0 /\ valid(Len(r))
          /\ d.promise = "resolved" /\ d.by # "message" =>
               d.by = "timer" /\ d.value = Null /\ ~d.timer
          /\ ~d.timer => d.promise # "pending"
          /\ discover.fn = "discoverPLC" /\ discover.promise # "pending" =>
               /\ d.promise = discover.promise
               /\ d.value = discover.value
               /\ d.by = discover.by]_vars

\* a reply from another address and an unparsable reply from ip were passed
\* over, then the reply from ip resolved the call
C26_Witness ==
  /\ discover.fn = "discoverPLC" /\ discover.by = "message"
  /\ Len(discover.received) = 3
  /\ discover.received[1].address # discover.ipAddress
  /\ discover.received[2].address = discover.ipAddress
  /\ discover.value.productName = deviceInfo.productName

C27_DeviceOncePerSourceAddress ==
  LET e == scanner.emitted
      seen(i) == e[i].event \in {"device", "deviceUpdate"}
  IN \A i \in 1..Len(e) :
       seen(i) =>
         (e[i].event = "device" <=>
            \A j \in 1..(i - 1) : seen(j) => e[j].address # e[i].address)


\* C29 (as claimed): whatever the order of the application's calls, a
\* request is written to the socket only when no other request is pending.
C29_OneRequestOutstanding ==
  [][(last'.op \in Vias /\ last'.res = "pending" /\ wire' # wire) => InFlight = {}]_vars

\* C30: a request written to a socket is settled at the latest when its
\* timer fires (while it is pending its timer is armed), it is rejected
\* only by an error status or with 'Request timeout', and once settled its
\* outcome never changes - also when a later request took its slot or the
\* socket was closed.
C30_SettlesOnceByTimeout ==
  /\ [](\A r \in RequestIds :
          reqs[r].sock # 0 =>
            /\ reqs[r].st # "none"
            /\ reqs[r].st = "pending" => reqs[r].timer
            /\ reqs[r].st = "rejected" =>
                 reqs[r].err = "Request timeout" \/ reqs[r].code # 0)
  /\ [][\A r \in RequestIds :
          reqs[r].st \in {"resolved", "rejected"} =>
            /\ reqs'[r].st = reqs[r].st
            /\ reqs'[r].err = reqs[r].err
            /\ reqs'[r].code = reqs[r].code
            /\ reqs'[r].by = reqs[r].by]_vars

\* a request lost its slot to a later one, which was resolved with the
\* earlier one's response; the socket was closed; the earlier request ended
\* in 'Request timeout'
C30_Witness ==
  \E r1, r2 \in RequestIds :
    /\ r1 # r2
    /\ reqs[r1].sock # 0 /\ reqs[r1].st = "rejected" /\ reqs[r1].err = "Request timeout"
    /\ reqs[r2].st = "resolved" /\ reqs[r2].by = r1
    /\ socks[reqs[r1].sock] = "closed"
    /\ last.op = "requestTimeout" /\ last.id = r1


\* C31 (as claimed): every connect() promise settles.  Once the socket a
\* connect() call created has closed, none of its handlers runs again and
\* the stored callbacks belong to this call or to a later one, so the
\* promise has to be settled by the time its socket is closed.
C31_ConnectSettles ==
  \A s \in SocketIds : socks[s] = "closed" => connFut[s].st # "pending"


\* C32 (as claimed): a Ready Connection leaves Ready only in a step of
\* disconnect(), of the socket's 'error' event or of its 'close' event; the
\* socket's idle timer never ends a Ready session.
C32_ReadyUntilDisconnectOrLoss ==
  [][(Ready /\ ~Ready') =>
       last'.op \in {"disconnect", "disconnectTimer", "error", "close"}]_vars


\* C33 (as claimed): in every step in which isConnected() changes from
\* true to false the Driver emits 'disconnected' or 'error'.
C33_LossIsAnnounced ==
  [][(connected /\ ~connected') =>
       DriverEmits' \cap {"disconnected", "error"} # {}]_vars


\* C34 (as claimed): after a disconnect() promise has resolved, no callback
\* other than a new connect() call makes isConnected() true or the session
\* handle nonzero.
C34_StaysDisconnected ==
  [][(DisconnectResolved /\ last'.op # "connect") =>
       (~connected' /\ sessionHandle' = 0)]_vars


\* C35 (as claimed): the timer of a request settles that request only, and
\* when it fires the pending-response slot is empty or holds that request:
\* it never clears the slot of another request.
C35_TimeoutClearsOwnSlot ==
  [][\A r \in RequestIds :
       (last'.op = "requestTimeout" /\ last'.id = r /\ reqs[r].timer /\ ~reqs'[r].timer) =>
         /\ pendingResponse \in {0, r}
         /\ \A q \in RequestIds \ {r} : reqs'[q] = reqs[q]]_vars


\* C36: a Write Tag handled by the simulator either returns status 0, the
\* tag has the value and the type of the request, every other tag is as
\* before and one tagChanged event with that name, value and type was
\* emitted, or it returns a nonzero status, the table is as before and no
\* event was emitted.
C36_WriteAllOrNothing ==
  arg.fn = "handleWriteTag" /\ ret # NotApplied =>
    LET r == ret.v
        tagName == parseTagNameFromPath(arg.cipPath)
        dataType == arg.cipData[3]
        valueData == Slice(arg.cipData, 3, Len(arg.cipData))
    IN IF r.status = 0
         THEN /\ tagName # Null /\ Len(arg.cipData) >= 3
              /\ DOMAIN r.tags = DOMAIN arg.table \cup {tagName.s}
              /\ \A n \in DOMAIN arg.table : n # tagName.s => r.tags[n] = arg.table[n]
              /\ r.tags[tagName.s].dataType = dataType
              /\ arg.cipData[1] = 1 /\ arg.cipData[2] = 0 =>
                   r.tags[tagName.s].value = decodeValue(dataType, valueData, 0).v
              /\ r.emitted = <<[name |-> tagName.s, value |-> r.tags[tagName.s].value,
                                dataType |-> dataType]>>
         ELSE r.tags = arg.table /\ r.emitted = <<>>

\* an array of two INT elements replaced the DINT tag 'T'; a request with
\* an element cut short was refused
C36_Witness ==
  /\ arg.fn = "handleWriteTag" /\ ret # NotApplied
  /\ ret.v.status = 0
  /\ <<84>> \in DOMAIN arg.table
  /\ arg.cipData[1] = 2 /\ arg.cipData[3] = CIP_INT
  /\ ret.v.tags[<<84>>].value = Array(<<N(263), N(16256)>>)


C39_SocketClosedOnce ==
  discover # NoDiscover => ~discover.threw


\* C38: browseTags never rejects and returns at most maxTags tags; a request
\* is outstanding only while fewer than maxTags tags were found and fewer
\* than 10 answers in a row failed or were empty; the number of requests
\* is bounded; and the call returns.
C38_BrowseTerminates ==
  /\ [](arg.fn = "browseTags" =>
          /\ Len(arg.tags) <= arg.maxTags
          /\ arg.consecutiveErrors <= maxConsecutiveErrors
          /\ arg.at = "request" =>
               Len(arg.tags) < arg.maxTags /\ arg.consecutiveErrors < maxConsecutiveErrors
          /\ arg.at = "returned" <=> ret # NotApplied
          /\ ret # NotApplied => ret = Ok(arg.tags)
          /\ arg.sent <= (arg.maxTags + 1) * maxConsecutiveErrors)
  /\ (arg.fn = "browseTags") ~> (ret # NotApplied)

\* ten answers in a row failed after a tag had been found: the call
\* returned the one tag
C38_Witness ==
  /\ arg.fn = "browseTags" /\ ret # NotApplied
  /\ arg.consecutiveErrors = maxConsecutiveErrors
  /\ Len(ret.v) = 1 /\ arg.sent = 11

\* C40 as stated: a row leaves QUEUE only when a post of its job has
\* succeeded or its text is not valid JSON.
C40_RemovedOnlyDelivered ==
  [][\A row \in db.QUEUE :
       row \notin db'.QUEUE => (row.id \in api' \/ JSONparse(row.job).err # "")]_vars

\* C40: a row leaves QUEUE only when a post of its job has succeeded, or its
\* text is not valid JSON, or its text is the JSON value null; and the row
\* of a job whose post failed is in QUEUE as long as no post of it succeeded,
\* whatever the rounds in progress do.
C40_RemovedOnlyDeliveredOrUnread ==
  /\ [](\A j \in register.jobs :
          (j.at = "failed" /\ j.id \notin api) => [id |-> j.id, job |-> j.job] \in db.QUEUE)
  /\ [][\A row \in db.QUEUE :
         row \notin db'.QUEUE =>
           \/ row.id \in api'
           \/ JSONparse(row.job).err # ""
           \/ JSONparse(row.job).v = Null]_vars

\* the post of a job failed in the first round, the second round posted it
\* again and removed its row; a row holding null was removed without a post
C40_Witness ==
  /\ \E j, k \in register.jobs :
       /\ j.id = k.id /\ j.round < k.round
       /\ j.at = "failed" /\ k.at = "removed"
       /\ k.id \in api
       /\ \A row \in db.QUEUE : row.id # k.id
  /\ \E j \in register.jobs : j.job = "null" /\ j.at = "removed" /\ j.id \notin api

====
